---- MODULE Spec2Model ----
(***************************************************************************)
(* Klondike draw-three engine (Klondike3Engine) together with the shared  *)
(* UndoManager.  The engine is modelled as a state machine whose actions  *)
(* are the event handlers and deferred callbacks of the class; the card   *)
(* piles, the rendered display (the DOM the handlers are attached to),    *)
(* the animation flags, the pending timers and the undo history are the   *)
(* state.                                                                  *)
(***************************************************************************)
EXTENDS Integers, Sequences, FiniteSets, Bags, TLC

VARIABLES
  gameState,            \* stock, waste, foundations, tableau, moveCount, score
  history,              \* UndoManager.history (oldest first)
  maxHistory,           \* UndoManager.maxHistory
  firstMoveDone,
  currentHint,          \* <<>> for null, <<move>> otherwise
  isMoveAnimating,
  isFlipAnimating,
  revealedCardIds,
  animationsEnabled,
  animationSpeedPreset,
  animationBaseMs,
  dragData,             \* <<>> for null, <<record>> while a drag is in progress
  dom,                  \* what the last display update rendered
  tasks,                \* bag of pending timeouts / animation frames
  out,                  \* observation of the last handler invocation
  steps,                \* accepted state-changing actions so far (exploration bound)
  script,               \* scripted user inputs still to be played; <<>> in free play
  heap,                 \* UndoManager model: object store (ref -> value)
  live,                 \* UndoManager model: the caller's live state object
  pushed,               \* UndoManager model: value of each pushed snapshot at push time
  wins                  \* onWin notifications since the last startNewDeal

vars == <<gameState, history, maxHistory, firstMoveDone, currentHint,
          isMoveAnimating, isFlipAnimating, revealedCardIds, animationsEnabled,
          animationSpeedPreset, animationBaseMs, dragData, dom, tasks, out,
          steps, script, heap, live, pushed, wins>>

(***************************************************************************)
(* Bounds of the exploration.                                              *)
(***************************************************************************)
MaxSteps == 1        \* accepted user gestures and shell requests in free play
MaxPending == 1      \* pending deferred callbacks of one kind
MaxOps == 4          \* UndoManager calls and mutations in one behaviour

(***************************************************************************)
(* Program constants.                                                      *)
(***************************************************************************)
NumSuits == 4
NumRanks == 13
NumColumns == 7
DrawCount == 3
DefaultMaxHistory == 500
DefaultBaseMs == 80

Suits == 0 .. (NumSuits - 1)
Ranks == 1 .. NumRanks
Columns == 0 .. (NumColumns - 1)
DeckSize == NumSuits * NumRanks

(***************************************************************************)
(* Sequence helpers.                                                       *)
(***************************************************************************)
Max(a, b) == IF a > b THEN a ELSE b
Min(a, b) == IF a < b THEN a ELSE b
Last(s) == s[Len(s)]
DropLast(s, n) == SubSeq(s, 1, Max(Len(s) - n, 0))
TakeLast(s, n) == SubSeq(s, Max(Len(s) - n, 0) + 1, Len(s))
Reverse(s) == [i \in 1 .. Len(s) |-> s[Len(s) + 1 - i]]

RECURSIVE SumSeq(_)
SumSeq(s) == IF s = <<>> THEN 0 ELSE Head(s) + SumSeq(Tail(s))

RECURSIVE Flatten(_)
Flatten(ss) == IF ss = <<>> THEN <<>> ELSE Head(ss) \o Flatten(Tail(ss))

\* Array.prototype.findIndex on card ids; 0 stands for the -1 of the source.
FindIndex(pile, cardId) ==
  LET hits == {i \in 1 .. Len(pile) : <<pile[i].suit, pile[i].rank>> = cardId}
  IN IF hits = {} THEN 0 ELSE CHOOSE i \in hits : \A j \in hits : i <= j

(***************************************************************************)
(* Cards and the deck.                                                     *)
(***************************************************************************)
Card(s, r, up) == [suit |-> s, rank |-> r, faceUp |-> up]
CardId(card) == <<card.suit, card.rank>>

createDeck ==
  [i \in 1 .. DeckSize |-> Card((i - 1) \div NumRanks, ((i - 1) % NumRanks) + 1, FALSE)]

\* Fisher-Yates leaves the deck in some permutation; perm[i] is the index in
\* the unshuffled deck of the card that ends at position i.
IsPermutation(perm) ==
  /\ Len(perm) = DeckSize
  /\ {perm[i] : i \in 1 .. DeckSize} = 1 .. DeckSize

shuffleDeck(deck, perm) == [i \in 1 .. Len(deck) |-> deck[perm[i]]]

EmptyGameState ==
  [stock |-> <<>>, waste |-> <<>>,
   foundations |-> [f \in Suits |-> <<>>],
   tableau |-> [c \in Columns |-> <<>>],
   moveCount |-> 0, score |-> 0]

\* Column col receives col + 1 cards popped from the end of the deck, the
\* last of them face-up; returns the tableau and the remaining deck.
ColumnStart(col) == (col * (col + 1)) \div 2
\* Variant: the first card dealt into a column is turned face up.
dealTableau_FirstUp(deck) ==
  [tableau |->
     [col \in Columns |->
        [row \in 1 .. (col + 1) |->
           LET card == deck[Len(deck) - ColumnStart(col) - (row - 1)]
           IN [card EXCEPT !.faceUp = (row = 1)]]],
   deck |-> DropLast(deck, ColumnStart(NumColumns))]
dealTableau(deck) ==
  [tableau |->
     [col \in Columns |->
        [row \in 1 .. (col + 1) |->
           LET card == deck[Len(deck) - ColumnStart(col) - (row - 1)]
           IN [card EXCEPT !.faceUp = (row - 1 = col)]]],
   deck |-> DropLast(deck, ColumnStart(NumColumns))]

(***************************************************************************)
(* UndoManager (value level).  A snapshot is a structural copy of a plain  *)
(* data state: every pile, every card field and both counters.             *)
(***************************************************************************)
cloneCard(card) == [suit |-> card.suit, rank |-> card.rank, faceUp |-> card.faceUp]
clonePile(pile) == [i \in 1 .. Len(pile) |-> cloneCard(pile[i])]

cloneState(snapshot) ==
  [stock |-> clonePile(snapshot.stock),
   waste |-> clonePile(snapshot.waste),
   foundations |-> [f \in DOMAIN snapshot.foundations |-> clonePile(snapshot.foundations[f])],
   tableau |-> [c \in DOMAIN snapshot.tableau |-> clonePile(snapshot.tableau[c])],
   moveCount |-> snapshot.moveCount,
   score |-> snapshot.score]

\* maxHistory and the limit passed to setMaxHistory are JavaScript numbers:
\* n, or n + 1/2 for a limit that is not a whole number.
Whole(n) == [int |-> n, half |-> FALSE]
AndAHalf(n) == [int |-> n, half |-> TRUE]
IsPositive(x) == x.int > 0 \/ (x.int = 0 /\ x.half)
\* length > x, for an array length.
LengthExceeds(length, x) == length > x.int
\* length - x as splice and slice take it: the fraction is discarded.
TruncatedExcess(length, x) == IF x.half THEN length - x.int - 1 ELSE length - x.int

\* history.push(cloned) followed by the cap: splice(0, overflow) drops the
\* oldest entries.
pushSnapshot(hist, maxH, cloned) ==
  LET h == Append(hist, cloned)
  IN IF LengthExceeds(Len(h), maxH)
     THEN SubSeq(h, TruncatedExcess(Len(h), maxH) + 1, Len(h))
     ELSE h

\* Variant: a single remaining snapshot is not offered for undo.
canUndo_MoreThanOne(hist) == Len(hist) > 1

canUndo(hist) == Len(hist) > 0

\* Variant: takes the oldest snapshot instead of the most recent one.
undo_Oldest(hist) ==
  IF ~canUndo(hist)
  THEN [ret |-> <<>>, history |-> hist]
  ELSE [ret |-> <<Head(hist)>>, history |-> Tail(hist)]

\* Variant: returns the most recent snapshot and leaves it in the history.
undo_Peek(hist) ==
  IF ~canUndo(hist)
  THEN [ret |-> <<>>, history |-> hist]
  ELSE [ret |-> <<Last(hist)>>, history |-> hist]

\* history.pop(): <<>> stands for null.
undo(hist) ==
  IF ~canUndo(hist)
  THEN [ret |-> <<>>, history |-> hist]
  ELSE [ret |-> <<Last(hist)>>, history |-> DropLast(hist, 1)]

\* setMaxHistory(limit): limits that are not positive numbers are ignored.
setMaxHistory(hist, maxH, limit) ==
  IF IsPositive(limit)
  THEN [maxHistory |-> limit,
        history |-> IF LengthExceeds(Len(hist), limit)
                    THEN SubSeq(hist, TruncatedExcess(Len(hist), limit) + 1, Len(hist))
                    ELSE hist]
  ELSE [maxHistory |-> maxH, history |-> hist]

\* A reference is a position of the heap; these two stand for the values
\* null and undefined, which refer to no object.
Null == 0
Undefined == 0 - 1
Nullish == {Null, Undefined}

\* Variant: the live object itself is stored, without cloning.
StoreClone_Alias(h, ref) == [heap |-> h, ref |-> ref]

\* const cloned = cloneState(snapshot): a new object on the heap that shares
\* nothing with the object it was cloned from (structuredClone copies the
\* whole object graph, so two states share a pile or a card only when they
\* are the same object); null and undefined are returned as they are.
StoreClone(h, ref) ==
  IF ref \in Nullish
  THEN [heap |-> h, ref |-> ref]
  ELSE [heap |-> Append(h, cloneState(h[ref])), ref |-> Len(h) + 1]

\* Variant: snapshot === null.
IsNullish_Strict(snapshot) == snapshot = Null

\* snapshot == null
IsNullish(snapshot) == snapshot \in Nullish

\* pushSnapshot(snapshot) on the heap: the guard, the clone, the push and the
\* cap.
pushSnapshotRef(h, hist, maxH, snapshot) ==
  IF IsNullish(snapshot)
  THEN [heap |-> h, history |-> hist]
  ELSE LET c == StoreClone(h, snapshot)
       IN [heap |-> c.heap, history |-> pushSnapshot(hist, maxH, c.ref)]

(***************************************************************************)
(* The engine.  Handlers are written as functions on an engine record e   *)
(* holding every field of the object, the display, the pending callbacks  *)
(* and the notifications emitted so far by the running handler.           *)
(***************************************************************************)
\* A notification with its payload.  onFirstMove has no payload: its entry
\* carries the counters the callback can read from the engine when it runs.
Ev(t, m, s, c) == [type |-> t, moves |-> m, score |-> s, count |-> c]
Emit(e, ev) == [e EXCEPT !.events = Append(@, ev)]

Loc(zone, idx) == [zone |-> zone, idx |-> idx]
WasteLoc == Loc("waste", 0)

isAnimating(e) == e.isMoveAnimating \/ e.isFlipAnimating

getAnimationDurations(e) ==
  [moveDurationMs |-> 2 * e.animationBaseMs,
   flipTotalMs |-> (5 * e.animationBaseMs) \div 2,
   stockDelayMs |-> e.animationBaseMs]

captureUndoSnapshot(e) ==
  [e EXCEPT !.history = pushSnapshot(@, e.maxHistory, cloneState(e.gameState))]

FoundationTotal(gs) == SumSeq([i \in 1 .. NumSuits |-> Len(gs.foundations[i - 1])])

\* Variant: the win is announced as soon as one foundation is complete.
checkWinCondition_SuitFull(e) ==
  LET total == FoundationTotal(e.gameState)
      e1 == Emit(e, Ev("checkWin", e.gameState.moveCount, e.gameState.score, total))
  IN IF \E f \in Suits : Len(e.gameState.foundations[f]) = NumRanks
     THEN Emit(e1, Ev("onWin", e1.gameState.moveCount, e1.gameState.score, 0))
     ELSE e1

\* The call of checkWinCondition is logged with the total it computed.
checkWinCondition(e) ==
  LET total == FoundationTotal(e.gameState)
      e1 == Emit(e, Ev("checkWin", e.gameState.moveCount, e.gameState.score, total))
  IN IF total = DeckSize
     THEN Emit(e1, Ev("onWin", e1.gameState.moveCount, e1.gameState.score, 0))
     ELSE e1

\* Variant: the stored hint survives the move.
registerMove_KeepHint(e) ==
  LET e2 == IF ~e.firstMoveDone
            THEN Emit([e EXCEPT !.firstMoveDone = TRUE],
                      Ev("onFirstMove", e.gameState.moveCount, e.gameState.score,
                         Len(e.gameState.stock)))
            ELSE e
      e3 == [e2 EXCEPT !.gameState.moveCount = @ + 1]
  IN Emit(e3, Ev("onMove", e3.gameState.moveCount, e3.gameState.score,
                 Len(e3.gameState.stock)))

registerMove(e) ==
  LET e1 == [e EXCEPT !.currentHint = <<>>]
      e2 == IF ~e1.firstMoveDone
            THEN Emit([e1 EXCEPT !.firstMoveDone = TRUE],
                      Ev("onFirstMove", e1.gameState.moveCount, e1.gameState.score,
                         Len(e1.gameState.stock)))
            ELSE e1
      e3 == [e2 EXCEPT !.gameState.moveCount = @ + 1]
  IN Emit(e3, Ev("onMove", e3.gameState.moveCount, e3.gameState.score,
                 Len(e3.gameState.stock)))

IsRed(card) == card.suit = 0 \/ card.suit = 1

\* Variant: the colour of the two cards is not compared.
canMoveToTableau_AnyColour(gs, cards, colIndex) ==
  IF Len(cards) = 0 THEN FALSE
  ELSE LET column == gs.tableau[colIndex]
           bottomCard == cards[1]
       IN IF Len(column) = 0
          THEN bottomCard.rank = NumRanks
          ELSE LET topCard == Last(column)
               IN IF ~topCard.faceUp THEN FALSE
                  ELSE bottomCard.rank = topCard.rank - 1

canMoveToTableau(gs, cards, colIndex) ==
  IF Len(cards) = 0 THEN FALSE
  ELSE LET column == gs.tableau[colIndex]
           bottomCard == cards[1]
       IN IF Len(column) = 0
          THEN bottomCard.rank = NumRanks
          ELSE LET topCard == Last(column)
               IN IF ~topCard.faceUp THEN FALSE
                  ELSE /\ IsRed(topCard) # IsRed(bottomCard)
                       /\ bottomCard.rank = topCard.rank - 1

\* Variant: an ace goes to the first empty foundation.
canMoveToFoundation_FirstFit(gs, card) ==
  LET foundation == gs.foundations[card.suit]
      empty == {f \in Suits : Len(gs.foundations[f]) = 0}
  IN IF card.rank = 1
     THEN (IF empty = {} THEN -1 ELSE CHOOSE f \in empty : \A g \in empty : f <= g)
     ELSE IF Len(foundation) = 0 THEN -1
          ELSE (IF card.rank = Last(foundation).rank + 1 THEN card.suit ELSE -1)

\* Variant: an empty foundation accepts any card of its suit.
canMoveToFoundation_AnyStart(gs, card) ==
  LET foundation == gs.foundations[card.suit]
  IN IF Len(foundation) = 0
     THEN card.suit
     ELSE (IF card.rank = Last(foundation).rank + 1 THEN card.suit ELSE -1)

\* Returns the foundation index, or -1.
canMoveToFoundation(gs, card) ==
  LET foundation == gs.foundations[card.suit]
  IN IF Len(foundation) = 0
     THEN (IF card.rank = 1 THEN card.suit ELSE -1)
     ELSE (IF card.rank = Last(foundation).rank + 1 THEN card.suit ELSE -1)

\* Variant: turns the first card of the column face up instead of its top.
RevealTop_First(e, colIndex) ==
  LET column == e.gameState.tableau[colIndex]
  IN IF Len(column) > 0 /\ ~Last(column).faceUp
     THEN [e EXCEPT !.gameState.tableau[colIndex][1].faceUp = TRUE,
                    !.revealedCardIds = @ \cup {CardId(column[1])},
                    !.gameState.score = @ + 5]
     ELSE e

\* Reveal the new top card of a tableau column after cards were taken off it.
RevealTop(e, colIndex) ==
  LET column == e.gameState.tableau[colIndex]
  IN IF Len(column) > 0 /\ ~Last(column).faceUp
     THEN [e EXCEPT !.gameState.tableau[colIndex][Len(column)].faceUp = TRUE,
                    !.revealedCardIds = @ \cup {CardId(Last(column))},
                    !.gameState.score = @ + 5]
     ELSE e

\* Variant: the run is appended to the destination top card first.
moveCardsToTableau_Reversed(e, fromLocation, toColIndex, cards) ==
  IF ~canMoveToTableau(e.gameState, cards, toColIndex) THEN [e EXCEPT !.ret = FALSE]
  ELSE
    LET e1 == captureUndoSnapshot(e)
        e2 == CASE fromLocation.zone = "waste" ->
                     IF Len(cards) = 1 /\ Len(e1.gameState.waste) > 0
                     THEN [e1 EXCEPT !.gameState.waste = DropLast(@, 1),
                                     !.gameState.score = @ + 5]
                     ELSE e1
                [] fromLocation.zone = "foundation" ->
                     IF Len(cards) = 1 /\ Len(e1.gameState.foundations[fromLocation.idx]) > 0
                     THEN [e1 EXCEPT !.gameState.foundations[fromLocation.idx] = DropLast(@, 1),
                                     !.gameState.score = @ - 15]
                     ELSE e1
                [] fromLocation.zone = "tableau" ->
                     RevealTop([e1 EXCEPT !.gameState.tableau[fromLocation.idx] =
                                             DropLast(@, Len(cards))],
                               fromLocation.idx)
                [] OTHER -> e1
        e3 == [e2 EXCEPT !.gameState.tableau[toColIndex] = @ \o Reverse(cards)]
    IN [registerMove(e3) EXCEPT !.ret = TRUE]

\* Variant: the snapshot is captured before the legality check.
moveCardsToTableau_SnapshotFirst(e, fromLocation, toColIndex, cards) ==
  LET e1 == captureUndoSnapshot(e)
  IN IF ~canMoveToTableau(e.gameState, cards, toColIndex) THEN [e1 EXCEPT !.ret = FALSE]
     ELSE
       LET e2 == IF fromLocation.zone = "tableau"
                 THEN RevealTop([e1 EXCEPT !.gameState.tableau[fromLocation.idx] =
                                             DropLast(@, Len(cards))],
                                fromLocation.idx)
                 ELSE IF fromLocation.zone = "waste" /\ Len(cards) = 1
                              /\ Len(e1.gameState.waste) > 0
                      THEN [e1 EXCEPT !.gameState.waste = DropLast(@, 1),
                                      !.gameState.score = @ + 5]
                      ELSE IF fromLocation.zone = "foundation" /\ Len(cards) = 1
                                /\ Len(e1.gameState.foundations[fromLocation.idx]) > 0
                           THEN [e1 EXCEPT !.gameState.foundations[fromLocation.idx] =
                                             DropLast(@, 1),
                                           !.gameState.score = @ - 15]
                           ELSE e1
           e3 == [e2 EXCEPT !.gameState.tableau[toColIndex] = @ \o cards]
       IN [registerMove(e3) EXCEPT !.ret = TRUE]

moveCardsToTableau(e, fromLocation, toColIndex, cards) ==
  IF ~canMoveToTableau(e.gameState, cards, toColIndex) THEN [e EXCEPT !.ret = FALSE]
  ELSE
    LET e1 == captureUndoSnapshot(e)
        e2 == CASE fromLocation.zone = "waste" ->
                     IF Len(cards) = 1 /\ Len(e1.gameState.waste) > 0
                     THEN [e1 EXCEPT !.gameState.waste = DropLast(@, 1),
                                     !.gameState.score = @ + 5]
                     ELSE e1
                [] fromLocation.zone = "foundation" ->
                     IF Len(cards) = 1 /\ Len(e1.gameState.foundations[fromLocation.idx]) > 0
                     THEN [e1 EXCEPT !.gameState.foundations[fromLocation.idx] = DropLast(@, 1),
                                     !.gameState.score = @ - 15]
                     ELSE e1
                [] fromLocation.zone = "tableau" ->
                     RevealTop([e1 EXCEPT !.gameState.tableau[fromLocation.idx] =
                                             DropLast(@, Len(cards))],
                               fromLocation.idx)
                [] OTHER -> e1
        e3 == [e2 EXCEPT !.gameState.tableau[toColIndex] = @ \o cards]
    IN [registerMove(e3) EXCEPT !.ret = TRUE]

\* Variant: a foundation move scores 10 whether or not it reveals a card.
moveCardToFoundation_FlatScore(e, fromLocation, foundationIndex, card) ==
  IF canMoveToFoundation(e.gameState, card) # foundationIndex THEN [e EXCEPT !.ret = FALSE]
  ELSE
    LET e1 == captureUndoSnapshot(e)
        e2 == CASE fromLocation.zone = "waste" ->
                     IF Len(e1.gameState.waste) > 0
                     THEN [e1 EXCEPT !.gameState.waste = DropLast(@, 1)]
                     ELSE e1
                [] fromLocation.zone = "tableau" ->
                     IF Len(e1.gameState.tableau[fromLocation.idx]) > 0
                     THEN RevealTop([e1 EXCEPT !.gameState.tableau[fromLocation.idx] =
                                                 DropLast(@, 1)],
                                    fromLocation.idx)
                     ELSE e1
                [] OTHER -> e1
        e3 == [e2 EXCEPT !.gameState.foundations[foundationIndex] = Append(@, card),
                         !.gameState.score = e.gameState.score + 10]
    IN [checkWinCondition(registerMove(e3)) EXCEPT !.ret = TRUE]

\* Variant: the move is registered before the foundation score is added.
moveCardToFoundation_EarlyRegister(e, fromLocation, foundationIndex, card) ==
  IF canMoveToFoundation(e.gameState, card) # foundationIndex THEN [e EXCEPT !.ret = FALSE]
  ELSE
    LET e1 == captureUndoSnapshot(e)
        e2 == CASE fromLocation.zone = "waste" ->
                     IF Len(e1.gameState.waste) > 0
                     THEN [e1 EXCEPT !.gameState.waste = DropLast(@, 1)]
                     ELSE e1
                [] fromLocation.zone = "tableau" ->
                     IF Len(e1.gameState.tableau[fromLocation.idx]) > 0
                     THEN RevealTop([e1 EXCEPT !.gameState.tableau[fromLocation.idx] =
                                                 DropLast(@, 1)],
                                    fromLocation.idx)
                     ELSE e1
                [] OTHER -> e1
        e3 == [e2 EXCEPT !.gameState.foundations[foundationIndex] = Append(@, card)]
        e4 == registerMove(e3)
        e5 == [e4 EXCEPT !.gameState.score = @ + 10]
    IN [checkWinCondition(e5) EXCEPT !.ret = TRUE]

moveCardToFoundation(e, fromLocation, foundationIndex, card) ==
  IF canMoveToFoundation(e.gameState, card) # foundationIndex THEN [e EXCEPT !.ret = FALSE]
  ELSE
    LET e1 == captureUndoSnapshot(e)
        e2 == CASE fromLocation.zone = "waste" ->
                     IF Len(e1.gameState.waste) > 0
                     THEN [e1 EXCEPT !.gameState.waste = DropLast(@, 1)]
                     ELSE e1
                [] fromLocation.zone = "tableau" ->
                     IF Len(e1.gameState.tableau[fromLocation.idx]) > 0
                     THEN RevealTop([e1 EXCEPT !.gameState.tableau[fromLocation.idx] =
                                                 DropLast(@, 1)],
                                    fromLocation.idx)
                     ELSE e1
                [] OTHER -> e1
        e3 == [e2 EXCEPT !.gameState.foundations[foundationIndex] = Append(@, card),
                         !.gameState.score = @ + 10]
    IN [checkWinCondition(registerMove(e3)) EXCEPT !.ret = TRUE]

attemptMove(e, fromLocation, toLocation, cards) ==
  IF cards = <<>> THEN [e EXCEPT !.ret = FALSE]
  ELSE IF toLocation.zone = "tableau"
       THEN moveCardsToTableau(e, fromLocation, toLocation.idx, cards)
       ELSE IF toLocation.zone = "foundation"
            THEN moveCardToFoundation(e, fromLocation, toLocation.idx, cards[1])
            ELSE [e EXCEPT !.ret = FALSE]


(***************************************************************************)
(* The display.  Card elements carry data-card-id, data-location (their    *)
(* place in dom), the is-face-up class and, once listeners are attached,   *)
(* the draggable attribute.                                                *)
(***************************************************************************)
Elem(card, up) == [cardId |-> CardId(card), faceUp |-> up]

Render(gs, revealed) ==
  [stock |-> Len(gs.stock) > 0,
   waste |-> LET visibleCards == TakeLast(gs.waste, DrawCount)
             IN [i \in 1 .. Len(visibleCards) |->
                   Elem(visibleCards[i], visibleCards[i].faceUp)],
   foundations |-> [f \in Suits |->
                      IF Len(gs.foundations[f]) > 0
                      THEN <<Elem(Last(gs.foundations[f]), Last(gs.foundations[f]).faceUp)>>
                      ELSE <<>>],
   tableau |-> [c \in Columns |->
                  [i \in 1 .. Len(gs.tableau[c]) |->
                     LET card == gs.tableau[c][i]
                     IN Elem(card, card.faceUp /\ ~(CardId(card) \in revealed /\ card.faceUp))]],
   hasListeners |-> FALSE,
   draggable |-> {}]

AddTask(e, kind, n, resolved) ==
  [e EXCEPT !.tasks = @ (+) SetToBag({[kind |-> kind, n |-> n, resolved |-> resolved]})]
RemoveTask(e, t) == [e EXCEPT !.tasks = @ (-) SetToBag({t})]

\* updateStockAndWaste, updateFoundations, updateTableau and the request of
\* the animation frame that re-attaches the listeners.
performDisplayUpdate(e) ==
  AddTask(Emit([e EXCEPT !.dom = Render(e.gameState, e.revealedCardIds)],
               Ev("render", e.gameState.moveCount, e.gameState.score, 0)),
          "displayFrame", 0, FALSE)

updateDisplay(e, delayMs) ==
  IF delayMs > 0 THEN AddTask(e, "displayTimeout", 0, FALSE)
  ELSE performDisplayUpdate(e)

isCardDraggable(gs, location, cardId) ==
  CASE location.zone = "waste" ->
         Len(gs.waste) > 0 /\ CardId(Last(gs.waste)) = cardId
    [] location.zone = "foundation" -> TRUE
    [] location.zone = "tableau" ->
         LET column == gs.tableau[location.idx]
             cardIndex == FindIndex(column, cardId)
         IN IF cardIndex = 0 THEN FALSE
            ELSE \A i \in cardIndex .. Len(column) : column[i].faceUp
    [] OTHER -> FALSE

\* Every card element of the display with its location.
DomElements(d) ==
  {[loc |-> WasteLoc, el |-> d.waste[i]] : i \in 1 .. Len(d.waste)}
  \cup UNION {{[loc |-> Loc("foundation", f), el |-> d.foundations[f][i]] :
                 i \in 1 .. Len(d.foundations[f])} : f \in Suits}
  \cup UNION {{[loc |-> Loc("tableau", c), el |-> d.tableau[c][i]] :
                 i \in 1 .. Len(d.tableau[c])} : c \in Columns}

\* Elements that already have listeners are skipped; all elements of one
\* render get theirs in the same pass.
attachCardEventListeners(e) ==
  IF e.dom.hasListeners THEN e
  ELSE [e EXCEPT !.dom.hasListeners = TRUE,
                 !.dom.draggable =
                    {[loc |-> x.loc, cardId |-> x.el.cardId] :
                       x \in {y \in DomElements(e.dom) :
                                y.el.faceUp /\ isCardDraggable(e.gameState, y.loc, y.el.cardId)}}]

\* querySelector over the tableau elements: the first column holding the id.
HasTableauElement(d, cardId) ==
  \E c \in Columns : \E i \in 1 .. Len(d.tableau[c]) : d.tableau[c][i].cardId = cardId

AddFaceUpClass(d, ids) ==
  [d EXCEPT !.tableau =
     [c \in Columns |->
        [i \in 1 .. Len(d.tableau[c]) |->
           LET el == d.tableau[c][i]
               first == /\ \A c2 \in 0 .. (c - 1) : \A j \in 1 .. Len(d.tableau[c2]) :
                              d.tableau[c2][j].cardId # el.cardId
                        /\ \A j \in 1 .. (i - 1) : d.tableau[c][j].cardId # el.cardId
           IN IF el.cardId \in ids /\ first THEN [el EXCEPT !.faceUp = TRUE] ELSE el]]]

animateRevealedCards(e) ==
  IF e.revealedCardIds = {} THEN e
  ELSE
    LET durations == getAnimationDurations(e)
        found == {id \in e.revealedCardIds : HasTableauElement(e.dom, id)}
        flipped == [e EXCEPT !.dom = AddFaceUpClass(@, e.revealedCardIds)]
    IN IF ~e.animationsEnabled \/ durations.flipTotalMs = 0 THEN flipped
       ELSE IF found = {} THEN [e EXCEPT !.isFlipAnimating = FALSE]
            ELSE AddTask([flipped EXCEPT !.isFlipAnimating = TRUE],
                         "flipTimeout", Cardinality(found), FALSE)

\* Variant: the short-circuit for disabled animations is missing.
animateCardMovement_Always(e, sourceFound) ==
  IF ~sourceFound THEN updateDisplay(e, 0)
  ELSE AddTask([e EXCEPT !.isMoveAnimating = TRUE], "moveFrame", 0, FALSE)

\* animateCardMovement(source, dest).then(() => updateDisplay(0)).  The pile
\* containers always exist; the source card element may be missing.
animateCardMovement(e, sourceFound) ==
  IF ~sourceFound THEN updateDisplay(e, 0)
  ELSE IF ~e.animationsEnabled \/ getAnimationDurations(e).moveDurationMs = 0
       THEN updateDisplay(e, 0)
       ELSE AddTask([e EXCEPT !.isMoveAnimating = TRUE], "moveFrame", 0, FALSE)

\* Variant: the timeout that ends a move animation leaves the flag set.
fireTask_StuckMove(e, t) ==
  LET e0 == RemoveTask(e, t)
  IN CASE t.kind = "displayTimeout" -> performDisplayUpdate(e0)
       [] t.kind = "displayFrame" ->
            [animateRevealedCards(attachCardEventListeners(e0)) EXCEPT !.revealedCardIds = {}]
       [] t.kind = "moveFrame" -> AddTask(e0, "moveTimers", 0, FALSE)
       [] t.kind = "moveTimers" /\ ~t.resolved ->
            AddTask(updateDisplay(e0, 0), "moveTimers", 0, TRUE)
       [] t.kind = "moveTimers" /\ t.resolved -> e0
       [] t.kind = "flipTimeout" ->
            IF t.n - 1 = 0 THEN [e0 EXCEPT !.isFlipAnimating = FALSE]
            ELSE AddTask(e0, "flipTimeout", t.n - 1, FALSE)
       [] OTHER -> e0

\* Variant: the reveal bonus is added when the flip has completed.
fireTask_LateBonus(e, t) ==
  LET e0 == RemoveTask(e, t)
  IN CASE t.kind = "displayTimeout" -> performDisplayUpdate(e0)
       [] t.kind = "displayFrame" ->
            [animateRevealedCards(attachCardEventListeners(e0)) EXCEPT !.revealedCardIds = {}]
       [] t.kind = "moveFrame" -> AddTask(e0, "moveTimers", 0, FALSE)
       [] t.kind = "moveTimers" /\ ~t.resolved ->
            AddTask(updateDisplay(e0, 0), "moveTimers", 0, TRUE)
       [] t.kind = "moveTimers" /\ t.resolved -> [e0 EXCEPT !.isMoveAnimating = FALSE]
       [] t.kind = "flipTimeout" ->
            IF t.n - 1 = 0
            THEN [e0 EXCEPT !.isFlipAnimating = FALSE, !.gameState.score = @ + 5]
            ELSE AddTask(e0, "flipTimeout", t.n - 1, FALSE)
       [] OTHER -> e0

\* The deferred callbacks.
fireTask(e, t) ==
  LET e0 == RemoveTask(e, t)
  IN CASE t.kind = "displayTimeout" -> performDisplayUpdate(e0)
       [] t.kind = "displayFrame" ->
            [animateRevealedCards(attachCardEventListeners(e0)) EXCEPT !.revealedCardIds = {}]
       [] t.kind = "moveFrame" -> AddTask(e0, "moveTimers", 0, FALSE)
       [] t.kind = "moveTimers" /\ ~t.resolved ->
            AddTask(updateDisplay(e0, 0), "moveTimers", 0, TRUE)
       [] t.kind = "moveTimers" /\ t.resolved -> [e0 EXCEPT !.isMoveAnimating = FALSE]
       [] t.kind = "flipTimeout" ->
            IF t.n - 1 = 0 THEN [e0 EXCEPT !.isFlipAnimating = FALSE]
            ELSE AddTask(e0, "flipTimeout", t.n - 1, FALSE)
       [] OTHER -> e0

(***************************************************************************)
(* Handlers.                                                               *)
(***************************************************************************)
\* Variant: the drawn cards are moved as one block, in stock order.
DrawCards_Block(gs, n) ==
  LET block == TakeLast(gs.stock, n)
  IN [gs EXCEPT !.stock = DropLast(@, n),
                !.waste = @ \o [i \in 1 .. Len(block) |-> [block[i] EXCEPT !.faceUp = TRUE]]]

RECURSIVE DrawCards(_, _)
DrawCards(gs, n) ==
  IF n = 0 THEN gs
  ELSE LET card == Last(gs.stock)
       IN DrawCards([gs EXCEPT !.stock = DropLast(@, 1),
                               !.waste = Append(@, [card EXCEPT !.faceUp = TRUE])],
                    n - 1)

\* Variant: the waste is put back in waste order, without reversal.
RecycleWaste_InOrder(gs) ==
  [gs EXCEPT !.waste = <<>>,
             !.stock = @ \o [i \in 1 .. Len(gs.waste) |-> [gs.waste[i] EXCEPT !.faceUp = FALSE]]]

RECURSIVE RecycleWaste(_)
RecycleWaste(gs) ==
  IF Len(gs.waste) = 0 THEN gs
  ELSE LET card == Last(gs.waste)
       IN RecycleWaste([gs EXCEPT !.waste = DropLast(@, 1),
                                  !.stock = Append(@, [card EXCEPT !.faceUp = FALSE])])

\* Variant: the click is registered as a move even when nothing was moved.
handleStockClick_AlwaysMoved(e) ==
  LET e1 == IF Len(e.gameState.stock) > 0
            THEN LET c == captureUndoSnapshot(e)
                 IN [c EXCEPT !.gameState =
                        DrawCards(@, Min(DrawCount, Len(c.gameState.stock)))]
            ELSE IF Len(e.gameState.waste) > 0
                 THEN LET c == captureUndoSnapshot(e)
                      IN [c EXCEPT !.gameState = RecycleWaste(@)]
                 ELSE e
      e2 == registerMove(e1)
  IN [updateDisplay(e2, getAnimationDurations(e2).stockDelayMs) EXCEPT !.ret = TRUE]

handleStockClick(e) ==
  LET moved == Len(e.gameState.stock) > 0 \/ Len(e.gameState.waste) > 0
      e1 == IF Len(e.gameState.stock) > 0
            THEN LET c == captureUndoSnapshot(e)
                 IN [c EXCEPT !.gameState =
                        DrawCards(@, Min(DrawCount, Len(c.gameState.stock)))]
            ELSE IF Len(e.gameState.waste) > 0
                 THEN LET c == captureUndoSnapshot(e)
                      IN [c EXCEPT !.gameState = RecycleWaste(@)]
                 ELSE e
  IN IF moved
     THEN LET e2 == registerMove(e1)
          IN [updateDisplay(e2, getAnimationDurations(e2).stockDelayMs) EXCEPT !.ret = TRUE]
     ELSE [e1 EXCEPT !.ret = FALSE]

\* Variant: the animating gate is missing.
stockClickHandler_Ungated(e) == handleStockClick(e)

stockClickHandler(e) == IF isAnimating(e) THEN e ELSE handleStockClick(e)

\* Variant: the highest-index column that accepts the cards.
FirstTableauTarget_Last(gs, cards, skip) ==
  LET ok == {c \in Columns : c # skip /\ canMoveToTableau(gs, cards, c)}
  IN IF ok = {} THEN -1 ELSE CHOOSE c \in ok : \A d \in ok : c >= d

\* The lowest-index column other than skip that accepts the cards, or -1.
FirstTableauTarget(gs, cards, skip) ==
  LET ok == {c \in Columns : c # skip /\ canMoveToTableau(gs, cards, c)}
  IN IF ok = {} THEN -1 ELSE CHOOSE c \in ok : \A d \in ok : c <= d

HasElement(pileElems, cardId) == \E i \in 1 .. Len(pileElems) : pileElems[i].cardId = cardId

handleWasteClick(e) ==
  IF Len(e.gameState.waste) = 0 THEN e
  ELSE
    LET topCard == Last(e.gameState.waste)
        foundationIndex == canMoveToFoundation(e.gameState, topCard)
        wasteCardFound == Len(e.dom.waste) > 0
    IN IF foundationIndex # -1
       THEN LET m == moveCardToFoundation(e, WasteLoc, foundationIndex, topCard)
            IN IF m.ret THEN animateCardMovement(m, wasteCardFound) ELSE m
       ELSE LET col == FirstTableauTarget(e.gameState, <<topCard>>, -1)
            IN IF col # -1
               THEN LET m == moveCardsToTableau(e, WasteLoc, col, <<topCard>>)
                    IN IF m.ret THEN animateCardMovement(m, wasteCardFound) ELSE m
               ELSE e

tryMoveTableauToFoundation(e, colIndex) ==
  LET column == e.gameState.tableau[colIndex]
  IN IF Len(column) = 0 THEN [e EXCEPT !.ret = FALSE]
     ELSE
       LET card == Last(column)
           fromLocation == Loc("tableau", colIndex)
           foundationIndex == canMoveToFoundation(e.gameState, card)
           cardFound == HasElement(e.dom.tableau[colIndex], CardId(card))
           toFoundation == IF foundationIndex # -1
                           THEN moveCardToFoundation(e, fromLocation, foundationIndex, card)
                           ELSE [e EXCEPT !.ret = FALSE]
           targetCol == FirstTableauTarget(toFoundation.gameState, <<card>>, colIndex)
       IN IF ~card.faceUp THEN [e EXCEPT !.ret = FALSE]
          ELSE IF toFoundation.ret THEN animateCardMovement(toFoundation, cardFound)
          ELSE IF targetCol # -1
               THEN LET m == moveCardsToTableau(toFoundation, fromLocation, targetCol, <<card>>)
                    IN IF m.ret THEN animateCardMovement(m, cardFound) ELSE m
               ELSE [toFoundation EXCEPT !.ret = FALSE]

\* Click on a card element el of the display at location.
clickHandler(e, location, el) ==
  IF isAnimating(e) THEN e
  ELSE IF location.zone = "waste" THEN handleWasteClick(e)
  ELSE IF location.zone = "tableau"
  THEN
    LET colIndex == location.idx
        column == e.gameState.tableau[colIndex]
        cardIndex == FindIndex(column, el.cardId)
    IN IF ~el.faceUp THEN e
       ELSE IF Len(column) = 0 THEN e
       ELSE IF cardIndex = 0 THEN tryMoveTableauToFoundation(e, colIndex)
       ELSE IF cardIndex = Len(column) THEN tryMoveTableauToFoundation(e, colIndex)
       ELSE IF isCardDraggable(e.gameState, location, el.cardId)
       THEN LET stack == SubSeq(column, cardIndex, Len(column))
                targetCol == FirstTableauTarget(e.gameState, stack, colIndex)
            IN IF targetCol # -1
               THEN LET m == moveCardsToTableau(e, location, targetCol, stack)
                    \* the selector built from the element's (empty) id attribute
                    \* matches nothing, so the promise is already resolved
                    IN IF m.ret THEN animateCardMovement(m, FALSE) ELSE m
               ELSE e
       ELSE e
  ELSE e

findCardById(gs, cardId) ==
  LET piles == <<gs.waste>> \o [i \in 1 .. NumSuits |-> gs.foundations[i - 1]]
                 \o [i \in 1 .. NumColumns |-> gs.tableau[i - 1]]
      all == Flatten(piles)
      idx == FindIndex(all, cardId)
  IN IF idx = 0 THEN <<>> ELSE <<all[idx]>>

handleDragStart(e, location, cardId) ==
  LET draggedCards ==
        IF location.zone = "tableau"
        THEN LET column == e.gameState.tableau[location.idx]
                 cardIndex == FindIndex(column, cardId)
             IN IF cardIndex # 0 THEN SubSeq(column, cardIndex, Len(column)) ELSE <<>>
        ELSE findCardById(e.gameState, cardId)
  IN [e EXCEPT !.dragData =
        <<[cardId |-> cardId, location |-> location, draggedCards |-> draggedCards]>>]

dragStartHandler(e, location, cardId) ==
  IF isAnimating(e) THEN e ELSE handleDragStart(e, location, cardId)

cleanupDragVisuals(e) == [e EXCEPT !.dragData = <<>>]

\* After cleanupDragVisuals has set dragData to null the success branch
\* reads this.dragData.element.
handleDrop(e, dropZone) ==
  IF e.dragData = <<>> THEN e
  ELSE LET m == attemptMove(e, e.dragData[1].location, dropZone, e.dragData[1].draggedCards)
           c == cleanupDragVisuals(m)
       IN IF m.ret THEN [c EXCEPT !.threw = TRUE] ELSE c

dropHandler(e, dropZone) == IF isAnimating(e) THEN e ELSE handleDrop(e, dropZone)

dragEndHandler(e) == IF e.dragData # <<>> THEN cleanupDragVisuals(e) ELSE e

\* Variant: the undo restores the piles and the score but keeps moveCount.
undoLastMove_KeepCount(e) ==
  IF ~canUndo(e.history) THEN [e EXCEPT !.ret = FALSE]
  ELSE LET u == undo(e.history)
       IN IF u.ret = <<>> THEN [e EXCEPT !.history = u.history, !.ret = FALSE]
          ELSE LET e1 == [e EXCEPT !.history = u.history,
                                   !.gameState = [u.ret[1] EXCEPT
                                                    !.moveCount = e.gameState.moveCount],
                                   !.currentHint = <<>>]
                   e2 == updateDisplay(e1, 0)
               IN [Emit(e2, Ev("onMove", e2.gameState.moveCount, e2.gameState.score,
                               Len(e2.gameState.stock)))
                   EXCEPT !.ret = TRUE]

\* Variant: an undo back to the dealt position re-arms the first-move event.
undoLastMove_Rearm(e) ==
  IF ~canUndo(e.history) THEN [e EXCEPT !.ret = FALSE]
  ELSE LET u == undo(e.history)
       IN IF u.ret = <<>> THEN [e EXCEPT !.history = u.history, !.ret = FALSE]
          ELSE LET e1 == [e EXCEPT !.history = u.history,
                                   !.gameState = u.ret[1],
                                   !.currentHint = <<>>,
                                   !.firstMoveDone = (u.ret[1].moveCount > 0)]
                   e2 == updateDisplay(e1, 0)
               IN [Emit(e2, Ev("onMove", e2.gameState.moveCount, e2.gameState.score,
                               Len(e2.gameState.stock)))
                   EXCEPT !.ret = TRUE]

undoLastMove(e) ==
  IF ~canUndo(e.history) THEN [e EXCEPT !.ret = FALSE]
  ELSE LET u == undo(e.history)
       IN IF u.ret = <<>> THEN [e EXCEPT !.history = u.history, !.ret = FALSE]
          ELSE LET e1 == [e EXCEPT !.history = u.history,
                                   !.gameState = u.ret[1],
                                   !.currentHint = <<>>]
                   e2 == updateDisplay(e1, 0)
               IN [Emit(e2, Ev("onMove", e2.gameState.moveCount, e2.gameState.score,
                               Len(e2.gameState.stock)))
                   EXCEPT !.ret = TRUE]

\* Variant: the undo history is kept across the deal.
startNewDeal_KeepHistory(e, perm) ==
  LET deck == shuffleDeck(createDeck, perm)
      dealt == dealTableau(deck)
      e1 == [e EXCEPT !.currentHint = <<>>,
                      !.revealedCardIds = {},
                      !.gameState = [EmptyGameState EXCEPT !.tableau = dealt.tableau,
                                                           !.stock = dealt.deck],
                      !.firstMoveDone = FALSE]
  IN Emit(updateDisplay(e1, 0), Ev("onReset", 0, 0, 0))

startNewDeal(e, perm) ==
  LET deck == shuffleDeck(createDeck, perm)
      dealt == dealTableau(deck)
      e1 == [e EXCEPT !.history = <<>>,
                      !.currentHint = <<>>,
                      !.revealedCardIds = {},
                      !.gameState = [EmptyGameState EXCEPT !.tableau = dealt.tableau,
                                                           !.stock = dealt.deck],
                      !.firstMoveDone = FALSE]
  IN Emit(updateDisplay(e1, 0), Ev("onReset", 0, 0, 0))


(***************************************************************************)
(* Hints.                                                                  *)
(***************************************************************************)
willTableauMoveFlip(gs, colIndex, count) ==
  LET column == gs.tableau[colIndex]
  IN IF Len(column) <= count THEN FALSE
     ELSE ~column[Len(column) - count].faceUp

HintMove(type, fromZone, colIndex, cardId, toZone, toIndex, willFlip) ==
  [type |-> type,
   from |-> [zone |-> fromZone, colIndex |-> colIndex, cardId |-> cardId],
   to |-> [zone |-> toZone, index |-> toIndex],
   willFlip |-> willFlip]

\* The candidates a tableau column contributes, each with its priority list.
ColumnHints(gs, colIndex) ==
  LET column == gs.tableau[colIndex]
  IN IF Len(column) = 0 THEN <<>>
     ELSE
       LET card == Last(column)
           flip == willTableauMoveFlip(gs, colIndex, 1)
           foundationIndex == canMoveToFoundation(gs, card)
           targetCol == FirstTableauTarget(gs, <<card>>, colIndex)
       IN IF ~card.faceUp THEN <<>>
          ELSE (IF foundationIndex # -1
                THEN <<[priority |-> IF flip THEN 1 ELSE 2,
                        move |-> HintMove("tableau-to-foundation", "tableau", colIndex,
                                          CardId(card), "foundation", foundationIndex, flip)]>>
                ELSE <<>>)
               \o
               (IF targetCol # -1
                THEN <<[priority |-> IF flip THEN 1 ELSE 4,
                        move |-> HintMove("tableau-to-tableau", "tableau", colIndex,
                                          CardId(card), "tableau", targetCol, flip)]>>
                ELSE <<>>)

WasteHints(gs) ==
  IF Len(gs.waste) = 0 THEN <<>>
  ELSE LET topWaste == Last(gs.waste)
           col == FirstTableauTarget(gs, <<topWaste>>, -1)
       IN IF col # -1
          THEN <<[priority |-> 3,
                  move |-> HintMove("waste-to-tableau", "waste", -1, CardId(topWaste),
                                    "tableau", col, FALSE)]>>
          ELSE <<>>

\* Variant: a foundation move is preferred to a revealing move.
computeHintMove_FoundationFirst(gs) ==
  LET candidates == Flatten([i \in 1 .. NumColumns |-> ColumnHints(gs, i - 1)]) \o WasteHints(gs)
      OfPriority(p) == SelectSeq(candidates, LAMBDA c : c.priority = p)
  IN IF OfPriority(2) # <<>> THEN <<OfPriority(2)[1].move>>
     ELSE IF OfPriority(1) # <<>> THEN <<OfPriority(1)[1].move>>
     ELSE IF OfPriority(3) # <<>> THEN <<OfPriority(3)[1].move>>
     ELSE IF OfPriority(4) # <<>> THEN <<OfPriority(4)[1].move>>
     ELSE <<>>

\* <<>> stands for null.
computeHintMove(gs) ==
  LET candidates == Flatten([i \in 1 .. NumColumns |-> ColumnHints(gs, i - 1)]) \o WasteHints(gs)
      OfPriority(p) == SelectSeq(candidates, LAMBDA c : c.priority = p)
  IN IF OfPriority(1) # <<>> THEN <<OfPriority(1)[1].move>>
     ELSE IF OfPriority(2) # <<>> THEN <<OfPriority(2)[1].move>>
     ELSE IF OfPriority(3) # <<>> THEN <<OfPriority(3)[1].move>>
     ELSE IF OfPriority(4) # <<>> THEN <<OfPriority(4)[1].move>>
     ELSE <<>>

\* Variant: asking for a hint costs a point.
requestHint_Charged(e) ==
  [e EXCEPT !.currentHint = computeHintMove(e.gameState), !.gameState.score = @ - 1]

\* currentHint = null, then the move found, if any.
requestHint(e) == [e EXCEPT !.currentHint = computeHintMove(e.gameState)]

(***************************************************************************)
(* Options.  An option that is not passed is <<>>.                         *)
(***************************************************************************)
PresetMs(preset) ==
  CASE preset = "fast" -> 40
    [] preset = "normal" -> 80
    [] preset = "slow" -> 400
    [] OTHER -> 80

updateOptions(e, options) ==
  LET presetChanged == /\ options.animationSpeedPreset # <<>>
                       /\ options.animationSpeedPreset[1] \in {"slow", "normal", "fast"}
                       /\ e.animationSpeedPreset # options.animationSpeedPreset[1]
      animationsToggled == /\ options.animationsEnabled # <<>>
                           /\ e.animationsEnabled # options.animationsEnabled[1]
      e1 == IF presetChanged
            THEN [e EXCEPT !.animationSpeedPreset = options.animationSpeedPreset[1]]
            ELSE e
      e2 == IF animationsToggled
            THEN [e1 EXCEPT !.animationsEnabled = options.animationsEnabled[1]]
            ELSE e1
  IN IF presetChanged \/ animationsToggled
     THEN [e2 EXCEPT !.animationBaseMs =
             IF ~e2.animationsEnabled THEN 0 ELSE PresetMs(e2.animationSpeedPreset)]
     ELSE e2


(***************************************************************************)
(* Shuffles.  Math.random can produce any permutation; the exploration     *)
(* starts from two of them, given by the stock (bottom first) and the      *)
(* tableau cards in dealing order.                                         *)
(***************************************************************************)
RichStock ==
  <<
    <<0, 3>>, <<0, 4>>, <<0, 5>>, <<0, 6>>, <<0, 7>>, <<0, 8>>, <<0, 9>>, <<0, 10>>,
    <<0, 11>>, <<0, 13>>, <<1, 1>>, <<1, 2>>, <<1, 4>>, <<1, 5>>, <<1, 6>>, <<1, 8>>,
    <<1, 9>>, <<1, 11>>, <<1, 12>>, <<1, 13>>, <<2, 1>>, <<0, 12>>, <<3, 11>>, <<1, 10>>
  >>
RichTableau ==
  <<
    <<3, 1>>, <<2, 4>>, <<3, 2>>, <<1, 7>>, <<0, 2>>, <<0, 1>>, <<3, 10>>,
    <<3, 12>>, <<3, 13>>, <<1, 3>>, <<3, 6>>, <<3, 7>>, <<3, 8>>, <<3, 9>>,
    <<2, 13>>, <<2, 11>>, <<2, 12>>, <<3, 3>>, <<3, 4>>, <<3, 5>>, <<2, 9>>,
    <<2, 2>>, <<2, 3>>, <<2, 6>>, <<2, 7>>, <<2, 8>>, <<2, 10>>, <<2, 5>>
  >>
StackedStock ==
  <<
    <<1, 9>>, <<1, 10>>, <<1, 11>>, <<1, 6>>, <<1, 7>>, <<1, 8>>, <<1, 3>>, <<1, 4>>,
    <<1, 5>>, <<0, 13>>, <<1, 1>>, <<1, 2>>, <<0, 10>>, <<0, 11>>, <<0, 12>>, <<0, 7>>,
    <<0, 8>>, <<0, 9>>, <<0, 4>>, <<0, 5>>, <<0, 6>>, <<0, 1>>, <<0, 2>>, <<0, 3>>
  >>
StackedTableau ==
  <<
    <<1, 13>>, <<1, 12>>, <<3, 13>>, <<3, 12>>, <<3, 11>>, <<3, 10>>, <<3, 9>>,
    <<3, 8>>, <<3, 7>>, <<3, 6>>, <<3, 5>>, <<3, 4>>, <<3, 3>>, <<3, 2>>,
    <<3, 1>>, <<2, 13>>, <<2, 12>>, <<2, 11>>, <<2, 10>>, <<2, 9>>, <<2, 8>>,
    <<2, 7>>, <<2, 6>>, <<2, 5>>, <<2, 4>>, <<2, 3>>, <<2, 2>>, <<2, 1>>
  >>

\* The permutation that leaves the given stock and deals the given tableau.
PermFor(stockIds, tableauIds) ==
  LET order == stockIds \o Reverse(tableauIds)
  IN [i \in 1 .. Len(order) |-> order[i][1] * NumRanks + order[i][2]]

RichShuffle == PermFor(RichStock, RichTableau)
StackedShuffle == PermFor(StackedStock, StackedTableau)
Shuffles == {perm \in {RichShuffle, StackedShuffle} : IsPermutation(perm)}

OptionInputs ==
  {[animationSpeedPreset |-> <<>>, animationsEnabled |-> <<FALSE>>],
   [animationSpeedPreset |-> <<>>, animationsEnabled |-> <<TRUE>>],
   [animationSpeedPreset |-> <<"fast">>, animationsEnabled |-> <<>>]}

DropZones == {Loc("tableau", c) : c \in Columns} \cup {Loc("foundation", f) : f \in Suits}

(***************************************************************************)
(* The state machine.                                                      *)
(***************************************************************************)
Cur ==
  [gameState |-> gameState, history |-> history, maxHistory |-> maxHistory,
   firstMoveDone |-> firstMoveDone, currentHint |-> currentHint,
   isMoveAnimating |-> isMoveAnimating, isFlipAnimating |-> isFlipAnimating,
   revealedCardIds |-> revealedCardIds, animationsEnabled |-> animationsEnabled,
   animationSpeedPreset |-> animationSpeedPreset, animationBaseMs |-> animationBaseMs,
   dragData |-> dragData, dom |-> dom, tasks |-> tasks,
   events |-> <<>>, ret |-> FALSE, threw |-> FALSE]

\* The object right after its constructor and initializeGameState.
Constructed ==
  [gameState |-> EmptyGameState, history |-> <<>>, maxHistory |-> Whole(DefaultMaxHistory),
   firstMoveDone |-> FALSE, currentHint |-> <<>>,
   isMoveAnimating |-> FALSE, isFlipAnimating |-> FALSE,
   revealedCardIds |-> {}, animationsEnabled |-> TRUE,
   animationSpeedPreset |-> "normal", animationBaseMs |-> DefaultBaseMs,
   dragData |-> <<>>, dom |-> Render(EmptyGameState, {}), tasks |-> EmptyBag,
   events |-> <<>>, ret |-> FALSE, threw |-> FALSE]

\* What the last handler invocation let out: which handler it was, its
\* return value, its notifications, whether it threw and whether the
\* animating gate rejected it.
Observe(e, op, gated) ==
  [op |-> op, gated |-> gated, ret |-> e.ret, threw |-> e.threw, events |-> e.events]

\* A handler invocation counts as a step when it changed the game state, the
\* undo history, the stored hint or the animation options, or started a drag
\* gesture.  The drop that ends a drag gesture belongs to the step of its
\* drag start.
StepsAfter(e) ==
  IF \/ e.gameState # gameState
     \/ e.history # history
     \/ e.currentHint # currentHint
     \/ e.animationsEnabled # animationsEnabled
     \/ e.animationSpeedPreset # animationSpeedPreset
     \/ e.dragData # <<>> /\ dragData = <<>>
  THEN steps + 1 ELSE steps

\* The exploration bounds: accepted actions and pending callbacks.
WithinBounds(e) ==
  /\ StepsAfter(e) <= MaxSteps
  /\ \A t \in BagToSet(e.tasks) : CopiesIn(t, e.tasks) <= MaxPending

\* The engine after a handler has run, with the step count and the rest of
\* the script.
Assign(e, op, gated, stepsAfter, scriptAfter) ==
  /\ gameState' = e.gameState
  /\ history' = e.history
  /\ maxHistory' = e.maxHistory
  /\ firstMoveDone' = e.firstMoveDone
  /\ currentHint' = e.currentHint
  /\ isMoveAnimating' = e.isMoveAnimating
  /\ isFlipAnimating' = e.isFlipAnimating
  /\ revealedCardIds' = e.revealedCardIds
  /\ animationsEnabled' = e.animationsEnabled
  /\ animationSpeedPreset' = e.animationSpeedPreset
  /\ animationBaseMs' = e.animationBaseMs
  /\ dragData' = e.dragData
  /\ dom' = e.dom
  /\ tasks' = e.tasks
  /\ out' = Observe(e, op, gated)
  /\ steps' = stepsAfter
  /\ script' = scriptAfter
  /\ wins' = (IF op = "newDeal" THEN 0 ELSE wins)
                + Cardinality({i \in 1 .. Len(e.events) : e.events[i].type = "onWin"})
  /\ UNCHANGED <<heap, live, pushed>>

\* A handler invocation in free play.
Commit(e, op, gated) ==
  /\ script = <<>>
  /\ WithinBounds(e)
  /\ Assign(e, op, gated, StepsAfter(e), script)

\* The browser delivers no click while a drag gesture is in progress.
StockClick ==
  /\ dragData = <<>>
  /\ Commit(stockClickHandler(Cur), "stockClick", isAnimating(Cur))

CardClick ==
  /\ dragData = <<>>
  /\ dom.hasListeners
  /\ \E x \in DomElements(dom) :
       Commit(clickHandler(Cur, x.loc, x.el), "cardClick", isAnimating(Cur))

DragStart ==
  /\ dragData = <<>>
  /\ \E d \in dom.draggable :
       Commit(dragStartHandler(Cur, d.loc, d.cardId), "dragStart", isAnimating(Cur))

\* Drops of the engine's own drag gestures.
Drop ==
  /\ dragData # <<>>
  /\ script = <<>>
  /\ \E zone \in DropZones :
       Assign(dropHandler(Cur, zone), "drop", isAnimating(Cur), steps, script)

DragEnd ==
  /\ dragData # <<>>
  /\ Commit(dragEndHandler(Cur), "dragEnd", FALSE)

Undo == Commit(undoLastMove(Cur), "undo", FALSE)

NewDeal ==
  \E perm \in Shuffles : Commit(startNewDeal(Cur, perm), "newDeal", FALSE)

RequestHint ==
  /\ dragData = <<>>
  /\ Commit(requestHint(Cur), "hint", FALSE)

UpdateOptions ==
  /\ dragData = <<>>
  /\ \E options \in OptionInputs : Commit(updateOptions(Cur, options), "options", FALSE)

\* Deferred callbacks run in free play and between scripted inputs.
FireTask ==
  \E t \in BagToSet(tasks) :
    LET e == fireTask(Cur, t)
    IN /\ WithinBounds(e)
       /\ Assign(e, t.kind, FALSE, steps, script)

(***************************************************************************)
(* A behaviour starts with a fresh deal.  It may open with a scripted      *)
(* sequence of user inputs, each made on the settled board; free play      *)
(* follows when the script is exhausted.                                   *)
(***************************************************************************)
In(op, idx) == [op |-> op, idx |-> idx, from |-> WasteLoc, cardId |-> <<0, 0>>, to |-> WasteLoc]
DragFrom(from, cardId) == [In("dragStart", 0) EXCEPT !.from = from, !.cardId = cardId]
DropOn(to) == [In("drop", 0) EXCEPT !.to = to]

\* One scripted user input; "wait" lets the board settle.
Play(e, input) ==
  CASE input.op = "stock" -> stockClickHandler(e)
    [] input.op = "waste" -> clickHandler(e, WasteLoc, Last(e.dom.waste))
    [] input.op = "column" ->
         clickHandler(e, Loc("tableau", input.idx), Last(e.dom.tableau[input.idx]))
    [] input.op = "dragStart" -> dragStartHandler(e, input.from, input.cardId)
    [] input.op = "drop" -> dropHandler(e, input.to)
    [] input.op = "undo" -> undoLastMove(e)
    [] input.op = "hint" -> requestHint(e)
    [] OTHER -> e

RECURSIVE Repeat(_, _)
Repeat(inputs, n) == IF n = 0 THEN <<>> ELSE inputs \o Repeat(inputs, n - 1)

\* The ace of spades clicked to its foundation: free play starts with its
\* move animation in flight.
AceScript == <<In("column", 0)>>
\* Ace of spades to its foundation, then the ace of hearts dragged onto the
\* two of spades: column 1 ends in the run 2S, AH.  The stock click that
\* follows brings the display up to date.
RunScript ==
  <<In("column", 0), DragFrom(Loc("tableau", 2), <<0, 1>>), DropOn(Loc("tableau", 1)),
    In("stock", 0), In("wait", 0)>>
\* The whole stock drawn, nothing played.
DrawAllScript == Repeat(<<In("stock", 0)>>, 8) \o <<In("wait", 0)>>
\* Every stock card drawn and played from the waste to its foundation.
PlayStockScript ==
  Repeat(<<In("stock", 0), In("waste", 0), In("waste", 0), In("waste", 0)>>, 8)
    \o <<In("wait", 0)>>

\* The whole stock drawn as in DrawAllScript and the waste recycled; then one
\* card played from the first draw, the rest of the stock drawn, the waste
\* recycled and the 23 cards drawn again until two are left in the stock.
ShortStockScript ==
  DropLast(DrawAllScript, 1)
    \o <<In("stock", 0), In("stock", 0), In("waste", 0)>>
    \o Repeat(<<In("stock", 0)>>, 15) \o <<In("wait", 0)>>
\* The ace of spades clicked to its foundation, the move undone on the
\* settled board and the ace clicked again: free play starts with the move
\* animation of the second click in flight.
UndoScript == AceScript \o <<In("undo", 0)>> \o AceScript
\* The stock played out as in PlayStockScript, then the columns from right
\* to left: the king of diamonds on column 0 is the last card off the
\* foundations.
LastCardScript ==
  DropLast(PlayStockScript, 1)
    \o Repeat(<<In("column", 6)>>, 7) \o Repeat(<<In("column", 5)>>, 6)
    \o Repeat(<<In("column", 4)>>, 5) \o Repeat(<<In("column", 3)>>, 4)
    \o Repeat(<<In("column", 2)>>, 3) \o Repeat(<<In("column", 1)>>, 2)
    \o <<In("wait", 0)>>

\* The game won as in LastCardScript and by the click on the king of
\* diamonds, then the winning move undone.
WinUndoScript ==
  DropLast(LastCardScript, 1)
    \o <<In("column", 0), In("wait", 0), In("undo", 0), In("wait", 0)>>

\* The position of RunScript, then the ace of hearts picked up from column 1
\* and, the drag in progress, the stock click and the move of the ace
\* undone: the ace is back on column 2 while the drag still holds it as the
\* top card of column 1.
StaleDragScript ==
  RunScript \o <<DragFrom(Loc("tableau", 1), <<0, 1>>), In("undo", 0), In("undo", 0)>>
\* All cards but the king of diamonds on the foundations as in
\* LastCardScript; the king of spades dragged from its foundation to the
\* empty column 6 and the king of diamonds clicked to its foundation; then
\* the king of spades picked up from column 6 and, the drag in progress,
\* both moves undone and the king dropped on column 6.
StaleWinScript ==
  LastCardScript
    \o <<DragFrom(Loc("foundation", 3), <<3, 13>>), DropOn(Loc("tableau", 6)),
         In("column", 0), In("wait", 0),
         DragFrom(Loc("tableau", 6), <<3, 13>>), In("undo", 0), In("undo", 0),
         DropOn(Loc("tableau", 6)), In("wait", 0)>>

Openings ==
  {[perm |-> RichShuffle, script |-> <<>>],
   [perm |-> RichShuffle, script |-> UndoScript],
   [perm |-> RichShuffle, script |-> RunScript],
   [perm |-> StackedShuffle, script |-> ShortStockScript],
   [perm |-> StackedShuffle, script |-> LastCardScript]}

\* The handler a scripted input reaches.
HandlerOf(input) ==
  CASE input.op = "stock" -> "stockClick"
    [] input.op \in {"waste", "column"} -> "cardClick"
    [] OTHER -> input.op

\* The handlers behind the animating gate.
GatedOps == {"stockClick", "cardClick", "dragStart", "drop"}

ScriptStep ==
  /\ script # <<>>
  /\ tasks = EmptyBag
  /\ Assign(Play(Cur, Head(script)), HandlerOf(Head(script)),
            isAnimating(Cur) /\ HandlerOf(Head(script)) \in GatedOps, steps, Tail(script))

Init ==
  /\ IsPermutation(RichShuffle) /\ IsPermutation(StackedShuffle)
  /\ \E o \in Openings :
       LET e == startNewDeal(Constructed, o.perm)
       IN /\ gameState = e.gameState
          /\ history = e.history
          /\ maxHistory = e.maxHistory
          /\ firstMoveDone = e.firstMoveDone
          /\ currentHint = e.currentHint
          /\ isMoveAnimating = e.isMoveAnimating
          /\ isFlipAnimating = e.isFlipAnimating
          /\ revealedCardIds = e.revealedCardIds
          /\ animationsEnabled = e.animationsEnabled
          /\ animationSpeedPreset = e.animationSpeedPreset
          /\ animationBaseMs = e.animationBaseMs
          /\ dragData = e.dragData
          /\ dom = e.dom
          /\ tasks = e.tasks
          /\ out = Observe(e, "newDeal", FALSE)
          /\ script = o.script
  /\ steps = 0
  /\ heap = <<>>
  /\ live = 0
  /\ pushed = <<>>
  /\ wins = 0

Next ==
  \/ StockClick
  \/ CardClick
  \/ DragStart
  \/ Drop
  \/ DragEnd
  \/ Undo
  \/ NewDeal
  \/ RequestHint
  \/ UpdateOptions
  \/ FireTask
  \/ ScriptStep

Spec == Init /\ [][Next]_vars

(***************************************************************************)
(* The UndoManager with object identity.  heap holds the state objects,    *)
(* live is the caller's gameState object, history holds references into    *)
(* heap, and pushed records the value each snapshot had when it was        *)
(* pushed.                                                                 *)
(***************************************************************************)
\* What a caller may do to its live state object between two calls.
Mutations(gs) ==
  {[gs EXCEPT !.score = @ + 5],
   [gs EXCEPT !.moveCount = @ + 1],
   [gs EXCEPT !.tableau[1][1].faceUp = ~@],
   [gs EXCEPT !.tableau[0] = DropLast(@, 1)],
   IF Len(gs.stock) > 0 THEN DrawCards(gs, 1) ELSE RecycleWaste(gs)}

\* 0, 1, 2, 1/2 and 1 1/2.
LimitInputs == {Whole(0), Whole(1), Whole(2), AndAHalf(0), AndAHalf(1)}

UndoObserve(op, ret, value, mutated) ==
  [op |-> op, ret |-> ret, value |-> value, mutated |-> mutated]

EngineIdle ==
  UNCHANGED <<gameState, firstMoveDone, currentHint, isMoveAnimating, isFlipAnimating,
              revealedCardIds, animationsEnabled, animationSpeedPreset, animationBaseMs,
              dragData, dom, tasks, script, wins>>

\* pushSnapshot(snapshot) with the live state, null or undefined.
UMPushSnapshot ==
  /\ steps < MaxOps
  /\ \E snapshot \in {live} \cup Nullish :
       LET p == pushSnapshotRef(heap, history, maxHistory, snapshot)
       IN /\ heap' = p.heap
          /\ history' = p.history
          /\ pushed' = IF snapshot = live
                       THEN pushSnapshot(pushed, maxHistory, heap[live])
                       ELSE pushed
          /\ out' = UndoObserve(CASE snapshot = live -> "pushSnapshot"
                                  [] snapshot = Null -> "pushNull"
                                  [] OTHER -> "pushUndefined",
                                FALSE, <<>>, FALSE)
  /\ steps' = steps + 1
  /\ UNCHANGED <<live, maxHistory>>
  /\ EngineIdle

UMMutate ==
  /\ steps < MaxOps
  /\ \E m \in Mutations(heap[live]) : heap' = [heap EXCEPT ![live] = m]
  /\ out' = UndoObserve("mutate", FALSE, <<>>, FALSE)
  /\ steps' = steps + 1
  /\ UNCHANGED <<live, history, pushed, maxHistory>>
  /\ EngineIdle

\* undo(): the caller takes the returned object as its state.
UMUndo ==
  /\ steps < MaxOps
  /\ LET u == undo(history)
     IN /\ history' = u.history
        /\ IF u.ret = <<>>
           THEN /\ out' = UndoObserve("undo", FALSE, <<>>, FALSE)
                /\ UNCHANGED <<live, pushed>>
           ELSE /\ out' = UndoObserve("undo", TRUE, <<heap[u.ret[1]]>>,
                                      heap[live] # Last(pushed))
                /\ live' = u.ret[1]
                /\ pushed' = DropLast(pushed, 1)
  /\ steps' = steps + 1
  /\ UNCHANGED <<heap, maxHistory>>
  /\ EngineIdle

UMReset ==
  /\ steps < MaxOps
  /\ history' = <<>>
  /\ pushed' = <<>>
  /\ out' = UndoObserve("reset", FALSE, <<>>, FALSE)
  /\ steps' = steps + 1
  /\ UNCHANGED <<heap, live, maxHistory>>
  /\ EngineIdle

UMSetMaxHistory ==
  /\ steps < MaxOps
  /\ \E limit \in LimitInputs :
       /\ maxHistory' = setMaxHistory(history, maxHistory, limit).maxHistory
       /\ history' = setMaxHistory(history, maxHistory, limit).history
       /\ pushed' = setMaxHistory(pushed, maxHistory, limit).history
  /\ out' = UndoObserve("setMaxHistory", FALSE, <<>>, FALSE)
  /\ steps' = steps + 1
  /\ UNCHANGED <<heap, live>>
  /\ EngineIdle

InitUndo ==
  /\ \E perm \in Shuffles : heap = <<startNewDeal(Constructed, perm).gameState>>
  /\ live = 1
  /\ history = <<>>
  /\ pushed = <<>>
  /\ wins = 0
  /\ maxHistory = Whole(DefaultMaxHistory)
  /\ out = UndoObserve("start", FALSE, <<>>, FALSE)
  /\ steps = 0
  /\ gameState = EmptyGameState
  /\ firstMoveDone = FALSE
  /\ currentHint = <<>>
  /\ isMoveAnimating = FALSE
  /\ isFlipAnimating = FALSE
  /\ revealedCardIds = {}
  /\ animationsEnabled = TRUE
  /\ animationSpeedPreset = "normal"
  /\ animationBaseMs = DefaultBaseMs
  /\ dragData = <<>>
  /\ dom = Render(EmptyGameState, {})
  /\ tasks = EmptyBag
  /\ script = <<>>

NextUndo ==
  \/ UMPushSnapshot
  \/ UMMutate
  \/ UMUndo
  \/ UMReset
  \/ UMSetMaxHistory

SpecUndo == InitUndo /\ [][NextUndo]_vars

(***************************************************************************)
(* Play with animations disabled: updateOptions({animationsEnabled: false})*)
(* is called on the constructed engine, before the first deal, and the     *)
(* option is not changed afterwards.                                       *)
(***************************************************************************)
AnimationsOff == [animationSpeedPreset |-> <<>>, animationsEnabled |-> <<FALSE>>]
AnimationsOn == [animationSpeedPreset |-> <<>>, animationsEnabled |-> <<TRUE>>]

InstantOpenings ==
  {[perm |-> RichShuffle, script |-> <<>>],
   [perm |-> RichShuffle, script |-> RunScript],
   [perm |-> StackedShuffle, script |-> DrawAllScript],
   [perm |-> StackedShuffle, script |-> WinUndoScript],
   [perm |-> RichShuffle, script |-> StaleDragScript],
   [perm |-> StackedShuffle, script |-> StaleWinScript]}

InitInstant ==
  /\ \E o \in InstantOpenings :
       LET e == startNewDeal(updateOptions(Constructed, AnimationsOff), o.perm)
       IN /\ gameState = e.gameState
          /\ history = e.history
          /\ maxHistory = e.maxHistory
          /\ firstMoveDone = e.firstMoveDone
          /\ currentHint = e.currentHint
          /\ isMoveAnimating = e.isMoveAnimating
          /\ isFlipAnimating = e.isFlipAnimating
          /\ revealedCardIds = e.revealedCardIds
          /\ animationsEnabled = e.animationsEnabled
          /\ animationSpeedPreset = e.animationSpeedPreset
          /\ animationBaseMs = e.animationBaseMs
          /\ dragData = e.dragData
          /\ dom = e.dom
          /\ tasks = e.tasks
          /\ out = Observe(e, "newDeal", FALSE)
          /\ script = o.script
  /\ steps = 0
  /\ heap = <<>>
  /\ live = 0
  /\ pushed = <<>>
  /\ wins = 0

NextInstant ==
  \/ StockClick
  \/ CardClick
  \/ DragStart
  \/ Drop
  \/ DragEnd
  \/ Undo
  \/ NewDeal
  \/ FireTask
  \/ ScriptStep

SpecInstant == InitInstant /\ [][NextInstant]_vars

(***************************************************************************)
(* Hints.  The deals are chosen for their hint candidates: the top cards   *)
(* of columns 1 to 6 are black and no two of them are one rank apart, so   *)
(* that the only candidates are those of the single card of column 0 and   *)
(* of the waste top after the first draw.                                  *)
(***************************************************************************)
\* The top cards of columns 1 to 6 by their place in dealing order.
QuietTops ==
  [i \in {3, 6, 10, 15, 21, 28} |->
     CASE i = 3 -> <<3, 5>> [] i = 6 -> <<2, 3>> [] i = 10 -> <<3, 7>>
       [] i = 15 -> <<3, 3>> [] i = 21 -> <<3, 9>> [] OTHER -> <<3, 11>>]

\* The card of column 0: an ace, a red two for the black threes of columns 2
\* and 4, a king with no empty column to go to, a red four for the five of
\* column 1.
ColumnZeroInputs == {<<0, 1>>, <<0, 2>>, <<0, 13>>, <<1, 4>>}
\* The waste top of the first draw: a red two, a black queen, a red eight
\* for the nine of column 5, a red six for the seven of column 3, an ace.
WasteTopInputs == {<<1, 2>>, <<3, 12>>, <<1, 8>>, <<0, 6>>, <<1, 1>>}

\* The deal with the given card on column 0 and the given card third from
\* the top of the stock; the other cards fill the free places in deck order.
HintShuffle(first, third) ==
  LET stockSize == DeckSize - ColumnStart(NumColumns)
      thirdPlace == stockSize - DrawCount + 1
      \* places 1 .. stockSize are the stock bottom first, the others the
      \* tableau in dealing order
      IsFixed(place) == \/ place = thirdPlace
                        \/ place = stockSize + 1
                        \/ (place - stockSize) \in DOMAIN QuietTops
      FixedId(place) == IF place = thirdPlace THEN third
                        ELSE IF place = stockSize + 1 THEN first
                        ELSE QuietTops[place - stockSize]
      fixedIds == {FixedId(place) : place \in {q \in 1 .. DeckSize : IsFixed(q)}}
      deckIds == [i \in 1 .. DeckSize |-> <<(i - 1) \div NumRanks, ((i - 1) % NumRanks) + 1>>]
      freeIds == SelectSeq(deckIds, LAMBDA id : id \notin fixedIds)
      FreeBefore(place) == Cardinality({q \in 1 .. place : ~IsFixed(q)})
      IdAt(place) == IF IsFixed(place) THEN FixedId(place) ELSE freeIds[FreeBefore(place)]
  IN PermFor([i \in 1 .. stockSize |-> IdAt(i)],
             [i \in 1 .. ColumnStart(NumColumns) |-> IdAt(stockSize + i)])

HintShuffles ==
  {HintShuffle(first, third) : first \in ColumnZeroInputs, third \in WasteTopInputs}

\* The ace of spades clicked to its foundation and a hint requested on the
\* settled board.
HintScript == AceScript \o <<In("wait", 0), In("hint", 0)>>

\* One stock click: free play starts with its display update pending.
StockScript == <<In("stock", 0)>>

HintOpenings ==
  {[perm |-> perm, script |-> <<>>] : perm \in HintShuffles \cup Shuffles}
    \cup {[perm |-> RichShuffle, script |-> HintScript],
          [perm |-> StackedShuffle, script |-> StockScript]}

\* A handler invocation in free play; a hint request is not counted as a
\* step.
HintCommit(e, op, gated) ==
  LET moved == e.gameState # gameState \/ e.history # history
  IN /\ script = <<>>
     /\ moved => steps < MaxSteps
     /\ \A t \in BagToSet(e.tasks) : CopiesIn(t, e.tasks) <= MaxPending
     /\ Assign(e, op, gated, IF moved THEN steps + 1 ELSE steps, script)

HintStockClick == HintCommit(stockClickHandler(Cur), "stockClick", isAnimating(Cur))

HintCardClick ==
  /\ dom.hasListeners
  /\ \E x \in DomElements(dom) :
       HintCommit(clickHandler(Cur, x.loc, x.el), "cardClick", isAnimating(Cur))

HintUndo == HintCommit(undoLastMove(Cur), "undo", FALSE)

HintNewDeal ==
  \E perm \in Shuffles : HintCommit(startNewDeal(Cur, perm), "newDeal", FALSE)

HintRequest == HintCommit(requestHint(Cur), "hint", FALSE)

InitHint ==
  /\ \A perm \in HintShuffles : IsPermutation(perm)
  /\ \E o \in HintOpenings :
       LET e == startNewDeal(Constructed, o.perm)
       IN /\ gameState = e.gameState
          /\ history = e.history
          /\ maxHistory = e.maxHistory
          /\ firstMoveDone = e.firstMoveDone
          /\ currentHint = e.currentHint
          /\ isMoveAnimating = e.isMoveAnimating
          /\ isFlipAnimating = e.isFlipAnimating
          /\ revealedCardIds = e.revealedCardIds
          /\ animationsEnabled = e.animationsEnabled
          /\ animationSpeedPreset = e.animationSpeedPreset
          /\ animationBaseMs = e.animationBaseMs
          /\ dragData = e.dragData
          /\ dom = e.dom
          /\ tasks = e.tasks
          /\ out = Observe(e, "newDeal", FALSE)
          /\ script = o.script
  /\ steps = 0
  /\ heap = <<>>
  /\ live = 0
  /\ pushed = <<>>
  /\ wins = 0

NextHint ==
  \/ HintStockClick
  \/ HintCardClick
  \/ HintUndo
  \/ HintNewDeal
  \/ HintRequest
  \/ FireTask
  \/ ScriptStep

SpecHint == InitHint /\ [][NextHint]_vars

(***************************************************************************)
(* Scheduling.  The browser runs every timeout and every animation frame   *)
(* that has been requested: while callbacks are pending, one of them runs  *)
(* eventually.  User input is bounded by the number of moves, undos and    *)
(* deals; the pending callbacks are bounded by it.                         *)
(***************************************************************************)
\* The ace of hearts clicked off column 2: free play starts with its move
\* animation in flight and the card under it waiting for its flip.
RevealScript == <<In("column", 2)>>

FairOpenings ==
  {[perm |-> RichShuffle, script |-> <<>>],
   [perm |-> RichShuffle, script |-> RevealScript]}

\* The callbacks the engine can have pending.
FairTasks ==
  {[kind |-> k, n |-> 0, resolved |-> FALSE] :
     k \in {"displayTimeout", "displayFrame", "moveFrame", "moveTimers"}}
  \cup {[kind |-> "moveTimers", n |-> 0, resolved |-> TRUE]}
  \cup {[kind |-> "flipTimeout", n |-> n, resolved |-> FALSE] : n \in 1 .. NumColumns}

\* A handler invocation in free play: moves, undos and deals are counted.
FairCommit(e, op, gated) ==
  LET counted == e.gameState # gameState \/ e.history # history \/ op = "newDeal"
  IN /\ script = <<>>
     /\ counted => steps < MaxSteps
     /\ Assign(e, op, gated, IF counted THEN steps + 1 ELSE steps, script)

FairStockClick == FairCommit(stockClickHandler(Cur), "stockClick", isAnimating(Cur))

\* Clicks on the elements shown face up; the handler ignores the others.
FairCardClick ==
  /\ dom.hasListeners
  /\ \E x \in {y \in DomElements(dom) : y.el.faceUp} :
       FairCommit(clickHandler(Cur, x.loc, x.el), "cardClick", isAnimating(Cur))

FairUndo == FairCommit(undoLastMove(Cur), "undo", FALSE)

FairNewDeal == FairCommit(startNewDeal(Cur, RichShuffle), "newDeal", FALSE)

FairRequestHint == FairCommit(requestHint(Cur), "hint", FALSE)

FairUpdateOptions ==
  \E options \in {AnimationsOff, AnimationsOn} :
    FairCommit(updateOptions(Cur, options), "options", FALSE)

\* The pending callback t runs.
FairFire(t) ==
  /\ t \in BagToSet(tasks)
  /\ \E c \in {Cur} : \E e \in {fireTask(c, t)} : Assign(e, t.kind, FALSE, steps, script)

FairFireTask == \E t \in FairTasks : FairFire(t)

InitFair ==
  /\ \E o \in FairOpenings :
       LET e == startNewDeal(Constructed, o.perm)
       IN /\ gameState = e.gameState
          /\ history = e.history
          /\ maxHistory = e.maxHistory
          /\ firstMoveDone = e.firstMoveDone
          /\ currentHint = e.currentHint
          /\ isMoveAnimating = e.isMoveAnimating
          /\ isFlipAnimating = e.isFlipAnimating
          /\ revealedCardIds = e.revealedCardIds
          /\ animationsEnabled = e.animationsEnabled
          /\ animationSpeedPreset = e.animationSpeedPreset
          /\ animationBaseMs = e.animationBaseMs
          /\ dragData = e.dragData
          /\ dom = e.dom
          /\ tasks = e.tasks
          /\ out = Observe(e, "newDeal", FALSE)
          /\ script = o.script
  /\ steps = 0
  /\ heap = <<>>
  /\ live = 0
  /\ pushed = <<>>
  /\ wins = 0

NextFair ==
  \/ FairStockClick
  \/ FairCardClick
  \/ FairUndo
  \/ FairNewDeal
  \/ FairRequestHint
  \/ FairUpdateOptions
  \/ FairFireTask
  \/ ScriptStep

\* Weak fairness of FairFireTask: WF_vars(FairFireTask) with
\* ENABLED <<FairFireTask>>_vars written as the guard it amounts to, some
\* callback being pending.
TasksRun == []<>(tasks = EmptyBag) \/ []<><<FairFireTask>>_vars

SpecFair ==
  /\ InitFair
  /\ [][NextFair]_vars
  /\ TasksRun

(***************************************************************************)
(* Properties.                                                             *)
(***************************************************************************)
AllCards(gs) ==
  gs.stock \o gs.waste
    \o Flatten([i \in 1 .. NumSuits |-> gs.foundations[i - 1]])
    \o Flatten([i \in 1 .. NumColumns |-> gs.tableau[i - 1]])

\* Position of the first notification of a type, 0 when there is none.
EventIndex(events, type) ==
  LET hits == {i \in 1 .. Len(events) : events[i].type = type}
  IN IF hits = {} THEN 0 ELSE CHOOSE i \in hits : \A j \in hits : i <= j
HasEvent(events, type) == EventIndex(events, type) # 0
CountEvents(events, type) == Cardinality({i \in 1 .. Len(events) : events[i].type = type})

\* The handlers reached by user input on the board.
BoardOps == {"stockClick", "cardClick", "drop"}
\* A step in which such a handler changed the game state.
MoveStep == out'.op \in BoardOps /\ gameState' # gameState

\* C1: after any sequence of accepted actions from a fresh deal, stock,
\* waste, foundations and tableau together hold exactly the 52 card ids,
\* each id exactly once.
DeckConserved ==
  LET cards == AllCards(gameState)
  IN /\ Len(cards) = DeckSize
     /\ {CardId(cards[i]) : i \in 1 .. Len(cards)} = {<<s, r>> : s \in Suits, r \in Ranks}

\* C2: in every tableau column the face-up cards form a contiguous suffix:
\* no face-down card sits above a face-up card.
FaceUpSuffix ==
  \A c \in Columns :
    LET column == gameState.tableau[c]
    IN \A i \in 1 .. Len(column) : \A j \in i .. Len(column) :
         column[i].faceUp => column[j].faceUp

\* A move took a card off a column and turned the card below it face up,
\* above cards that are still face down.
FaceUpSuffixWitness ==
  /\ out.op \in BoardOps /\ out.ret
  /\ \E c \in Columns :
       LET column == gameState.tableau[c]
       IN /\ Len(column) >= 2
          /\ CardId(Last(column)) \in revealedCardIds
          /\ ~column[1].faceUp

\* Undo applied until the history is empty.
RECURSIVE UndoAll(_)
UndoAll(e) == IF ~canUndo(e.history) THEN e ELSE UndoAll(undoLastMove(e))

DealtStates == {startNewDeal(Constructed, perm).gameState : perm \in Shuffles}

\* C3: every successful state-changing action pushes exactly one snapshot,
\* an immediately following undoLastMove returns true and leaves gameState
\* equal to the state just before the action in every field, and as many
\* undos as there were actions restore the dealt state.
MoveThenUndo ==
  MoveStep =>
    /\ Len(history') = Len(history) + 1
    /\ LET u == undoLastMove(Cur')
       IN /\ u.ret
          /\ u.gameState = gameState
          /\ u.history = history
RoundTripStep ==
  (out'.op = "undo" /\ out'.ret) => out'.value = <<Last(pushed)>>
RoundTrip == [][RoundTripStep]_vars

\* undo() returned a snapshot after the live object had been mutated.
RoundTripWitness ==
  /\ out.op = "undo" /\ out.ret /\ out.mutated
  /\ out.value # <<>>

\* C5: while isAnimating is true a stock click, card click, drag start or
\* drop is ignored and not queued: the game state, the undo history, the
\* hint, the drag data, the display and the pending callbacks are unchanged
\* and nothing is emitted.
GatedStep ==
  out'.gated =>
    /\ UNCHANGED <<gameState, history, currentHint, firstMoveDone, dragData,
                   revealedCardIds, isMoveAnimating, isFlipAnimating, dom, tasks>>
    /\ out'.events = <<>>
    /\ ~out'.threw
GatedIgnored == [][GatedStep]_vars

\* A stock click arrived while an animation was in flight.
GatedIgnoredWitness ==
  /\ out.gated /\ out.op = "stockClick"
  /\ isAnimating(Cur)
  /\ Len(gameState.stock) > 0

\* C6: within a successful move the snapshot is pushed before gameState is
\* altered, the pile and score changes are complete when onFirstMove and
\* onMove are emitted (the onMove payload is the post-move moveCount, score
\* and stock size), and the win check runs after the card is on the
\* foundation, in the same action.
MoveOrderingStep ==
  MoveStep =>
    LET events == out'.events
        first == EventIndex(events, "onFirstMove")
        move == EventIndex(events, "onMove")
        win == EventIndex(events, "checkWin")
    IN /\ history' # <<>> /\ Last(history') = gameState
       /\ CountEvents(events, "onMove") = 1
       /\ events[move].moves = gameState'.moveCount
       /\ events[move].score = gameState'.score
       /\ events[move].count = Len(gameState'.stock)
       /\ first # 0 => /\ first < move
                       /\ events[first].score = gameState'.score
                       /\ events[first].count = Len(gameState'.stock)
       /\ FoundationTotal(gameState') > FoundationTotal(gameState) =>
            /\ win > move
            /\ events[win].count = FoundationTotal(gameState')
MoveOrdering == [][MoveOrderingStep]_vars

\* The first move of a deal put a card on a foundation.
MoveOrderingWitness ==
  /\ out.op \in BoardOps /\ out.ret
  /\ HasEvent(out.events, "onFirstMove")
  /\ HasEvent(out.events, "checkWin")
  /\ FoundationTotal(gameState) = 1

PileIds(elems) == [i \in 1 .. Len(elems) |-> elems[i].cardId]
\* The display shows the piles of the current game state.
DisplayCurrent ==
  LET r == Render(gameState, {})
  IN /\ dom.stock = r.stock
     /\ PileIds(dom.waste) = PileIds(r.waste)
     /\ \A f \in Suits : PileIds(dom.foundations[f]) = PileIds(r.foundations[f])
     /\ \A c \in Columns : PileIds(dom.tableau[c]) = PileIds(r.tableau[c])
\* A callback that leads to a display update is pending.
RenderPending ==
  \E t \in BagToSet(tasks) :
    \/ t.kind = "displayTimeout"
    \/ t.kind = "moveFrame"
    \/ t.kind = "moveTimers" /\ ~t.resolved

\* C7: after every successful state-changing action a display update that
\* renders the current gameState is eventually performed: a display that
\* does not show the current piles has its update pending.
DisplayFollows == DisplayCurrent \/ RenderPending

\* C8: no user-action entry point terminates with a thrown exception.
NoThrow == ~out.threw

\* The move requests the board can produce in a game state: the top waste
\* card, and every suffix of a tableau column that starts at a face-up card.
MoveRequests(gs) ==
  (IF Len(gs.waste) > 0 THEN {[from |-> WasteLoc, cards |-> <<Last(gs.waste)>>]} ELSE {})
  \cup UNION {{[from |-> Loc("tableau", c),
                cards |-> SubSeq(gs.tableau[c], i, Len(gs.tableau[c]))] :
                 i \in {k \in 1 .. Len(gs.tableau[c]) : gs.tableau[c][k].faceUp}} :
              c \in Columns}

\* C9: moveCardsToTableau called with a run that fails canMoveToTableau, and
\* moveCardToFoundation called with a foundation index other than the one
\* canMoveToFoundation returns, return false, leave every pile, flag, score,
\* moveCount and the undo history unchanged and emit nothing.
IllegalMoveRejected ==
  \A req \in MoveRequests(gameState) :
    /\ \A c \in Columns :
         ~canMoveToTableau(gameState, req.cards, c) =>
            moveCardsToTableau(Cur, req.from, c, req.cards) = Cur
    /\ \A f \in Suits :
         canMoveToFoundation(gameState, req.cards[1]) # f =>
            moveCardToFoundation(Cur, req.from, f, req.cards[1]) = Cur

\* A drop was refused by the legality check.
IllegalMoveRejectedWitness ==
  /\ out.op = "drop" /\ ~out.gated /\ ~out.ret /\ ~out.threw
  /\ out.events = <<>>

\* C10: a stock click with stock and waste both empty changes no pile, not
\* moveCount, score or the history size, and emits neither onFirstMove nor
\* onMove, however often it is repeated.
EmptyStockClickStep ==
  (out'.op = "stockClick" /\ Len(gameState.stock) = 0 /\ Len(gameState.waste) = 0) =>
    /\ UNCHANGED <<gameState, history, firstMoveDone, currentHint, dom, tasks>>
    /\ out'.events = <<>>
    /\ ~out'.ret
StockNoOp == [][EmptyStockClickStep]_vars

\* The stock was clicked with both piles empty and no animation running.
StockNoOpWitness ==
  /\ out.op = "stockClick" /\ ~out.gated
  /\ Len(gameState.stock) = 0 /\ Len(gameState.waste) = 0

\* Stock size right after a deal.
StockAfterDeal == DeckSize - ColumnStart(NumColumns)

\* C11: a stock click with n > 0 cards in stock moves exactly min(3, n)
\* cards from the end of stock to the end of waste, one at a time (the last
\* card drawn becomes the waste top), each face up, leaves the score
\* unchanged and adds exactly 1 to moveCount; three consecutive draws from a
\* 24-card stock leave 15 in stock and add 9 to waste and 3 to moveCount.
DrawStep ==
  (out'.op = "stockClick" /\ ~out'.gated /\ Len(gameState.stock) > 0) =>
    LET stock == gameState.stock
        n == Len(stock)
        k == IF n < DrawCount THEN n ELSE DrawCount
    IN /\ gameState'.stock = SubSeq(stock, 1, n - k)
       /\ gameState'.waste =
            gameState.waste \o [i \in 1 .. k |-> Card(stock[n + 1 - i].suit,
                                                     stock[n + 1 - i].rank, TRUE)]
       /\ gameState'.score = gameState.score
       /\ gameState'.moveCount = gameState.moveCount + 1
       /\ gameState'.foundations = gameState.foundations
       /\ gameState'.tableau = gameState.tableau
ThreeDraws ==
  Len(gameState.stock) = StockAfterDeal =>
    LET e3 == handleStockClick(handleStockClick(handleStockClick(Cur)))
    IN /\ Len(e3.gameState.stock) = StockAfterDeal - 3 * DrawCount
       /\ Len(e3.gameState.waste) = Len(gameState.waste) + 3 * DrawCount
       /\ e3.gameState.score = gameState.score
       /\ e3.gameState.moveCount = gameState.moveCount + 3
StockDraw == [][DrawStep]_vars /\ []ThreeDraws

\* A stock click drew the last two cards of the stock.
StockDrawWitness ==
  /\ out.op = "stockClick" /\ out.ret
  /\ gameState.stock = <<>>
  /\ history # <<>>
  /\ Len(Last(history).stock) \in 1 .. (DrawCount - 1)
  /\ Len(gameState.waste) = Len(Last(history).waste) + Len(Last(history).stock)

\* Stock clicks until the stock is empty, then one more.
RECURSIVE DrawOut(_)
DrawOut(e) == IF Len(e.gameState.stock) = 0 THEN e ELSE DrawOut(handleStockClick(e))
CycleStock(e) == handleStockClick(DrawOut(e))

\* C12: from stock sequence Q and empty waste, drawing until the stock is
\* empty and then recycling once, with no card taken from the waste in
\* between, yields a stock equal to Q in the same order, every card face
\* down, and an empty waste.  Stated for the cycle started in the current
\* state, and for the cycle the history records as just completed.
StockCycleAhead ==
  (gameState.waste = <<>> /\ gameState.stock # <<>>) =>
    LET c == CycleStock(Cur).gameState
    IN /\ c.stock = gameState.stock
       /\ \A i \in 1 .. Len(c.stock) : ~c.stock[i].faceUp
       /\ c.waste = <<>>
StockCycleDone ==
  \A i \in 1 .. Len(history) :
    (/\ gameState.waste = <<>>
     /\ history[i].waste = <<>>
     /\ \A j \in i .. Len(history) :
          /\ history[j].tableau = gameState.tableau
          /\ history[j].foundations = gameState.foundations
          /\ j > i => history[j].waste # <<>>)
    => /\ gameState.stock = history[i].stock
       /\ \A k \in 1 .. Len(gameState.stock) : ~gameState.stock[k].faceUp
StockCycle == StockCycleAhead /\ StockCycleDone

\* The whole stock was drawn and the waste recycled by the next stock click.
StockCycleWitness ==
  /\ out.op = "stockClick" /\ out.ret
  /\ gameState.waste = <<>>
  /\ Len(gameState.stock) = StockAfterDeal
  /\ Len(history) > StockAfterDeal \div DrawCount
  /\ history[1].waste = <<>> /\ history[1].stock = gameState.stock
  /\ Last(history).stock = <<>>

\* Shuffles tried on top of the two the exploration deals: the rotations of
\* the unshuffled deck by s suits and s cards, and their reversals.
Rotation(k) == [i \in 1 .. DeckSize |-> ((i - 1 + k) % DeckSize) + 1]
DealInputs ==
  Shuffles
    \cup {Rotation(s * NumRanks + s) : s \in Suits}
    \cup {Reverse(Rotation(s * NumRanks + s)) : s \in Suits}

DealtShape(gs) ==
  /\ \A c \in Columns :
       /\ Len(gs.tableau[c]) = c + 1
       /\ \A i \in 1 .. Len(gs.tableau[c]) : gs.tableau[c][i].faceUp <=> (i = c + 1)
  /\ Len(gs.stock) = 24
  /\ \A i \in 1 .. Len(gs.stock) : ~gs.stock[i].faceUp
  /\ gs.waste = <<>>
  /\ \A f \in Suits : gs.foundations[f] = <<>>
  /\ gs.score = 0
  /\ gs.moveCount = 0

\* The deal of a newly constructed engine, for each of the shuffles.
DealtShapeForInputs ==
  \A perm \in DealInputs :
    /\ IsPermutation(perm)
    /\ DealtShape(startNewDeal(Constructed, perm).gameState)

\* C13: immediately after startNewDeal, for every shuffle, tableau column i
\* holds exactly i + 1 cards of which only the last is face up, the stock
\* holds the remaining 24 cards all face down, waste and foundations are
\* empty, score = 0 and moveCount = 0.
DealShape ==
  /\ out.op = "newDeal" => DealtShape(gameState)
  /\ DealtShapeForInputs

\* A new deal was made over a game in progress.
DealShapeWitness ==
  /\ out.op = "newDeal" /\ steps > 0
  /\ HasEvent(out.events, "onReset")
  /\ history = <<>> /\ Len(gameState.stock) = StockAfterDeal

\* Every card of the deck, face up.
Deck == {Card(s, r, TRUE) : s \in Suits, r \in Ranks}

\* C14: canMoveToFoundation(card) returns card.suit iff the foundation of
\* that suit is empty and card.rank = 1, or is non-empty and card.rank is the
\* rank of its top card plus 1; otherwise it returns -1.  It never returns
\* the index of a foundation of another suit.
FoundationRule ==
  \A card \in Deck :
    LET foundation == gameState.foundations[card.suit]
        legal == \/ foundation = <<>> /\ card.rank = 1
                 \/ foundation # <<>> /\ card.rank = foundation[Len(foundation)].rank + 1
        result == canMoveToFoundation(gameState, card)
    IN /\ legal => result = card.suit
       /\ ~legal => result = -1
       /\ result \in {card.suit, -1}

\* A card went onto a non-empty foundation while another foundation was
\* complete and a third one empty.
FoundationRuleWitness ==
  /\ out.op = "cardClick" /\ out.ret
  /\ \E f \in Suits : Len(gameState.foundations[f]) = NumRanks
  /\ \E f \in Suits : gameState.foundations[f] = <<>>
  /\ \E f \in Suits : Len(gameState.foundations[f]) \in 2 .. (NumRanks - 1)

\* The top cards of the foundations as move requests.
FoundationRequests(gs) ==
  {[from |-> Loc("foundation", f), cards |-> <<Last(gs.foundations[f])>>] :
     f \in {g \in Suits : gs.foundations[g] # <<>>}}

\* The game state with the top card of a column turned face down.
TopDown(gs, c) ==
  IF gs.tableau[c] = <<>> THEN gs
  ELSE [gs EXCEPT !.tableau[c][Len(gs.tableau[c])].faceUp = FALSE]

\* The runs the board can offer to a column: the top waste card, the top
\* card of a foundation and every suffix of a column that starts at a
\* face-up card.
Runs(gs) == {req.cards : req \in MoveRequests(gs) \cup FoundationRequests(gs)}

TableauRuleIn(gs, run, c) ==
  LET column == gs.tableau[c]
      top == column[Len(column)]
      legal == \/ column = <<>> /\ run[1].rank = 13
               \/ /\ column # <<>>
                  /\ top.faceUp
                  /\ (top.suit \in {0, 1}) # (run[1].suit \in {0, 1})
                  /\ run[1].rank = top.rank - 1
  IN canMoveToTableau(gs, run, c) <=> legal

\* C15: for every non-empty run and every column, canMoveToTableau(run, col)
\* is true iff the column is empty and run[0].rank = 13, or the column is
\* non-empty, its top card is face up, its colour class (suits 0, 1 red;
\* 2, 3 black) differs from run[0]'s and run[0].rank = top.rank - 1; it is
\* false for an empty run.
TableauRule ==
  \A c \in Columns :
    /\ ~canMoveToTableau(gameState, <<>>, c)
    /\ \A run \in Runs(gameState) :
         /\ TableauRuleIn(gameState, run, c)
         /\ TableauRuleIn(TopDown(gameState, c), run, c)

\* A card click found a column for a king on an empty column while other
\* columns were occupied.
TableauRuleWitness ==
  /\ out.op \in BoardOps /\ out.ret
  /\ \E c \in Columns :
       /\ Len(gameState.tableau[c]) = 1
       /\ gameState.tableau[c][1].rank = NumRanks
       /\ Len(history) > 0 /\ Last(history).tableau[c] = <<>>
  /\ \E c \in Columns : Len(gameState.tableau[c]) > 1

\* The ids of the cards of a game state that lie face up, and face down.
UpIds(gs) ==
  LET cards == AllCards(gs) IN {CardId(cards[i]) : i \in {j \in 1 .. Len(cards) : cards[j].faceUp}}
DownIds(gs) ==
  LET cards == AllCards(gs) IN {CardId(cards[i]) : i \in {j \in 1 .. Len(cards) : ~cards[j].faceUp}}

\* The card a move of count cards off a source uncovers and turns face up.
Uncovered(gs, from, count) ==
  IF from.zone # "tableau" THEN {}
  ELSE LET column == gs.tableau[from.idx]
       IN IF Len(column) > count /\ ~column[Len(column) - count].faceUp
          THEN {CardId(column[Len(column) - count])}
          ELSE {}

\* C16: a successful moveCardToFoundation grows the target foundation by
\* exactly one card, adds exactly 1 to moveCount and exactly 10 to the score,
\* plus exactly 5 more iff the source was a tableau column whose new top card
\* was face down, in which case exactly that card becomes face up; no other
\* card's faceUp flag changes.
FoundationMove ==
  \A req \in MoveRequests(gameState) :
    LET card == req.cards[1]
        f == canMoveToFoundation(gameState, card)
        m == moveCardToFoundation(Cur, req.from, f, card)
        after == m.gameState
        revealed == Uncovered(gameState, req.from, 1)
    IN f # -1 =>
         /\ m.ret
         /\ Len(after.foundations[f]) = Len(gameState.foundations[f]) + 1
         /\ \A g \in Suits \ {f} : after.foundations[g] = gameState.foundations[g]
         /\ after.moveCount = gameState.moveCount + 1
         /\ after.score = gameState.score + 10 + (IF revealed # {} THEN 5 ELSE 0)
         /\ UpIds(after) \ UpIds(gameState) = revealed
         /\ DownIds(after) \ DownIds(gameState) = {}
         /\ m.revealedCardIds = revealedCardIds \cup revealed

\* A card went from a tableau column to a foundation and uncovered a
\* face-down card: 15 points.
FoundationMoveWitness ==
  /\ out.op \in BoardOps /\ out.ret
  /\ revealedCardIds # {}
  /\ Len(history) > 0
  /\ FoundationTotal(gameState) = FoundationTotal(Last(history)) + 1
  /\ gameState.score = Last(history).score + 15
  /\ gameState.moveCount = Last(history).moveCount + 1

\* The source pile of a request.
SourcePile(gs, from) ==
  CASE from.zone = "waste" -> gs.waste
    [] from.zone = "foundation" -> gs.foundations[from.idx]
    [] from.zone = "tableau" -> gs.tableau[from.idx]

WinStep ==
  LET events == out'.events
      win == EventIndex(events, "onWin")
      placed == FoundationTotal(gameState') > FoundationTotal(gameState)
      sizes == [i \in 1 .. 4 |-> Len(gameState'.foundations[i - 1])]
  IN /\ HasEvent(events, "onWin") <=>
          (placed /\ sizes[1] + sizes[2] + sizes[3] + sizes[4] = 52)
     /\ HasEvent(events, "onWin") =>
          /\ CountEvents(events, "onWin") = 1
          /\ CountEvents(events, "onMove") = 1
          /\ EventIndex(events, "onMove") < win
          /\ events[win].moves = gameState'.moveCount
          /\ events[win].score = gameState'.score
WinNotified == [][WinStep]_vars

\* The last card went onto its foundation and the win was announced.
WinNotifiedWitness ==
  /\ out.op = "cardClick" /\ out.ret
  /\ HasEvent(out.events, "onWin")
  /\ FoundationTotal(gameState) = DeckSize
  /\ gameState.moveCount > DeckSize

\* C19: onFirstMove is emitted exactly once per deal: on the first
\* successful state-changing action after startNewDeal and before that
\* action's onMove; it is not emitted by failed or ignored actions, not
\* emitted again by later moves or after undoing back to moveCount 0, and is
\* re-armed only by the next startNewDeal.
FirstMoveStep ==
  LET events == out'.events
      first == EventIndex(events, "onFirstMove")
  IN /\ HasEvent(events, "onFirstMove") <=> (MoveStep /\ ~firstMoveDone)
     /\ HasEvent(events, "onFirstMove") =>
          /\ CountEvents(events, "onFirstMove") = 1
          /\ first < EventIndex(events, "onMove")
          /\ firstMoveDone'
     /\ (firstMoveDone /\ ~firstMoveDone') => out'.op = "newDeal"
     /\ out'.op = "newDeal" => ~firstMoveDone'
\* The event is armed only as long as no move has been made in the deal.
FirstMoveArmed == ~firstMoveDone => (history = <<>> /\ gameState.moveCount = 0)
FirstMoveOnce == [][FirstMoveStep]_vars /\ []FirstMoveArmed

\* A move made after undoing back to moveCount 0 emitted onMove without
\* onFirstMove.
FirstMoveOnceWitness ==
  /\ out.op \in BoardOps /\ out.ret
  /\ gameState.moveCount = 1 /\ Len(history) = 1
  /\ HasEvent(out.events, "onMove")
  /\ ~HasEvent(out.events, "onFirstMove")
  /\ firstMoveDone

\* n snapshots, numbered in push order, pushed onto an empty history.
RECURSIVE PushAll(_, _, _)
PushAll(hist, maxH, n) ==
  IF n = 0 THEN hist ELSE pushSnapshot(PushAll(hist, maxH, n - 1), maxH, n)

\* C20: after any sequence of pushSnapshot, undo, reset and setMaxHistory
\* calls the history length never exceeds maxHistory (default 500), and
\* after n consecutive pushes onto an empty history it holds exactly the most
\* recent min(n, maxHistory) snapshots in push order: eviction removes only
\* the oldest entries and never the most recent one.
HistoryCapped ==
  \* twice the length against twice maxHistory
  /\ 2 * Len(history) <= 2 * maxHistory.int + (IF maxHistory.half THEN 1 ELSE 0)
  \* the history holds snapshots in the order of their creation
  /\ \A i \in 1 .. Len(history) : \A j \in 1 .. Len(history) :
       i < j => history[i] < history[j]
  \* the snapshot just pushed is the last one of the history
  /\ out.op = "pushSnapshot" => (history # <<>> /\ history[Len(history)] = Len(heap))
  /\ ~maxHistory.half =>
       \A n \in 0 .. (MaxOps + 1) :
         LET kept == IF n < maxHistory.int THEN n ELSE maxHistory.int
         IN PushAll(<<>>, maxHistory, n) = [i \in 1 .. kept |-> n - kept + i]

Range(seq) == {seq[i] : i \in DOMAIN seq}

\* References are handed out in increasing order, so the snapshot pushed
\* last is the greatest reference of the history.
Newest(hist) == CHOOSE r \in Range(hist) : \A other \in Range(hist) : other <= r

\* C21: canUndo() is true iff the history is non-empty, and undo() on a
\* non-empty history removes and returns the most recently pushed snapshot
\* that has not yet been undone and reduces the history size by exactly 1.
UndoPopsStep ==
  (out'.op = "undo" /\ history # <<>>) =>
    /\ out'.ret
    /\ live' = Newest(history)
    /\ out'.value = <<heap[Newest(history)]>>
    /\ Len(history') = Len(history) - 1
    /\ history' = SelectSeq(history, LAMBDA r : r # Newest(history))
UndoPops ==
  /\ [][UndoPopsStep]_vars
  /\ [](canUndo(history) <=> history # <<>>)

\* undo() returned the later of two snapshots and left the earlier one.
UndoPopsWitness ==
  /\ out.op = "undo" /\ out.ret
  /\ history # <<>>
  /\ \A r \in Range(history) : r < live

\* C22: pushSnapshot(null) and pushSnapshot(undefined) change neither the
\* size nor the content of the history, and undo() on an empty history
\* returns null and leaves the history empty.
NoOpStep ==
  /\ out'.op \in {"pushNull", "pushUndefined"} => UNCHANGED <<history, heap, live, maxHistory>>
  /\ (out'.op = "undo" /\ history = <<>>) =>
       /\ ~out'.ret /\ out'.value = <<>>
       /\ history' = <<>>
       /\ UNCHANGED <<heap, live, maxHistory>>
NoOpInputs == [][NoOpStep]_vars

\* undefined was pushed onto a history that holds a snapshot.
NoOpInputsWitness ==
  /\ out.op = "pushUndefined"
  /\ history # <<>>

\* C30: no snapshot of the history is the live state object or another
\* snapshot's object, the state undo() returned is none of the snapshots
\* still in the history, and every stored snapshot keeps the value it was
\* pushed with whatever is done to the live state.
NoAlias ==
  /\ \A i \in DOMAIN history : history[i] # live
  /\ \A i \in DOMAIN history : \A j \in DOMAIN history : i # j => history[i] # history[j]
  /\ Len(pushed) = Len(history)
  /\ \A i \in DOMAIN history : heap[history[i]] = pushed[i]

\* The state returned by undo() was mutated while a snapshot was stored.
NoAliasWitness ==
  /\ out.op = "mutate"
  /\ live # 1
  /\ history # <<>>

\* C23: right after startNewDeal the undo history is empty and currentHint
\* is null whatever happened in the previous deal; undoLastMove then returns
\* false, leaves the dealt gameState unchanged and emits no onMove; and
\* undoLastMove returns true iff a snapshot was restored.
UndoOutcomeStep ==
  out'.op = "undo" =>
    /\ out'.ret <=> (/\ history # <<>>
                     /\ gameState' = Last(history)
                     /\ history' = DropLast(history, 1))
    /\ history = <<>> => ~out'.ret
    /\ ~out'.ret => (/\ UNCHANGED <<gameState, history>>
                     /\ ~HasEvent(out'.events, "onMove"))
UndoWithinDeal ==
  /\ [][UndoOutcomeStep]_vars
  /\ [](out.op = "newDeal" => (history = <<>> /\ currentHint = <<>>))

\* A new deal of the other shuffle was started while the animation of a move
\* of the previous deal was in flight, and undoLastMove then found nothing to
\* undo.
UndoWithinDealWitness ==
  /\ out.op = "undo" /\ ~out.ret
  /\ isMoveAnimating
  /\ gameState = startNewDeal(Constructed, StackedShuffle).gameState
  /\ history = <<>>

\* The column index of a legal tableau destination for one card, the lowest
\* one other than skip.
LowestTarget(gs, card, skip) ==
  LET legal == {t \in Columns : t # skip /\ canMoveToTableau(gs, <<card>>, t)}
  IN IF legal = {} THEN -1 ELSE CHOOSE t \in legal : \A other \in legal : t <= other

\* Taking its top card off column c uncovers a face-down card.
UncoversHidden(gs, c) ==
  LET column == gs.tableau[c]
  IN Len(column) >= 2 /\ ~column[Len(column) - 1].faceUp

\* The candidate moves of a position, each with its tier, its source column
\* and its place among the moves of that column.
TierCandidates(gs) ==
  LET open == {c \in Columns : Len(gs.tableau[c]) > 0 /\ Last(gs.tableau[c]).faceUp}
      top(c) == Last(gs.tableau[c])
  IN {[tier |-> IF UncoversHidden(gs, c) THEN 1 ELSE 2, col |-> c, place |-> 0,
       move |-> HintMove("tableau-to-foundation", "tableau", c, CardId(top(c)),
                         "foundation", top(c).suit, UncoversHidden(gs, c))] :
        c \in {c \in open : canMoveToFoundation(gs, top(c)) # -1}}
     \cup
     {[tier |-> IF UncoversHidden(gs, c) THEN 1 ELSE 4, col |-> c, place |-> 1,
       move |-> HintMove("tableau-to-tableau", "tableau", c, CardId(top(c)),
                         "tableau", LowestTarget(gs, top(c), c), UncoversHidden(gs, c))] :
        c \in {c \in open : LowestTarget(gs, top(c), c) # -1}}
     \cup
     {[tier |-> 3, col |-> 0, place |-> 0,
       move |-> HintMove("waste-to-tableau", "waste", -1, CardId(Last(gs.waste)),
                         "tableau", LowestTarget(gs, Last(gs.waste), -1), FALSE)] :
        w \in {w \in {0} : Len(gs.waste) > 0 /\ LowestTarget(gs, Last(gs.waste), -1) # -1}}

\* a comes before b: by tier, then by source column, then by place.
ComesBefore(a, b) ==
  \/ a.tier < b.tier
  \/ a.tier = b.tier /\ a.col < b.col
  \/ a.tier = b.tier /\ a.col = b.col /\ a.place <= b.place

\* The number of face-down tableau cards.
HiddenCount(gs) ==
  SumSeq([i \in 1 .. NumColumns |->
            Cardinality({j \in DOMAIN gs.tableau[i - 1] : ~gs.tableau[i - 1][j].faceUp})])

\* The engine after the hinted move has been carried out.
ExecuteHint(e, move) ==
  LET card == IF move.from.zone = "waste"
              THEN Last(e.gameState.waste)
              ELSE Last(e.gameState.tableau[move.from.colIndex])
      source == IF move.from.zone = "waste" THEN WasteLoc
                ELSE Loc("tableau", move.from.colIndex)
  IN attemptMove(e, source, Loc(move.to.zone, move.to.index), <<card>>)

\* C24: computeHintMove returns the first candidate of the highest non-empty
\* tier: (1) a tableau top card move that reveals a face-down card, (2) a
\* tableau top card to its foundation without reveal, (3) the waste top card
\* to the tableau, (4) another tableau top card to the tableau; source
\* columns in ascending order, the destination column the lowest legal one
\* other than the source.  willFlip is true iff carrying the move out turns
\* a card face up and adds the reveal bonus.  With a tableau-to-tableau move
\* as the only candidate that move is returned.
HintTiers ==
  LET candidates == TierCandidates(gameState)
      hint == computeHintMove(gameState)
  IN /\ candidates = {} => hint = <<>>
     /\ candidates # {} =>
          /\ hint # <<>>
          /\ \E first \in candidates :
               /\ \A other \in candidates : ComesBefore(first, other)
               /\ hint[1] = first.move
          /\ LET done == ExecuteHint(Cur, hint[1])
                 base == CASE hint[1].type = "tableau-to-foundation" -> 10
                           [] hint[1].type = "waste-to-tableau" -> 5
                           [] OTHER -> 0
             IN /\ done.ret
                /\ hint[1].willFlip <=> HiddenCount(done.gameState) < HiddenCount(gameState)
                /\ done.gameState.score =
                     gameState.score + base + (IF hint[1].willFlip THEN 5 ELSE 0)
     /\ \A only \in candidates :
          (candidates = {only} /\ only.move.type = "tableau-to-tableau") => hint = <<only.move>>

\* A hint was requested on a position whose only candidate is a
\* tableau-to-tableau move.
HintTiersWitness ==
  /\ out.op = "hint"
  /\ Cardinality(TierCandidates(gameState)) = 1
  /\ currentHint # <<>>
  /\ currentHint[1].type = "tableau-to-tableau"

\* C25: a hint request leaves every pile, every faceUp flag, score,
\* moveCount, the undo history and the first-move flag unchanged and emits
\* no notification; only currentHint changes.
HintReadOnlyStep ==
  out'.op = "hint" =>
    /\ UNCHANGED <<gameState, history, maxHistory, firstMoveDone, revealedCardIds,
                   isMoveAnimating, isFlipAnimating, dragData, tasks>>
    /\ out'.events = <<>>
    /\ currentHint' = computeHintMove(gameState)
HintReadOnly == [][HintReadOnlyStep]_vars

\* A hint was found after a move had been made.
HintReadOnlyWitness ==
  /\ out.op = "hint"
  /\ currentHint # <<>>
  /\ history # <<>>
  /\ gameState.moveCount > 0

\* C26: currentHint is null after every successful move, every successful
\* undo and every new deal, so a non-null currentHint is what
\* computeHintMove returns for the current gameState and describes a move
\* that is legal in it.
HintClearedStep ==
  (gameState' # gameState \/ out'.op = "newDeal" \/ (out'.op = "undo" /\ out'.ret)) =>
    currentHint' = <<>>
HintCurrent ==
  currentHint # <<>> =>
    /\ currentHint = computeHintMove(gameState)
    /\ ExecuteHint(Cur, currentHint[1]).ret
HintFresh == [][HintClearedStep]_vars /\ []HintCurrent

\* The hint stored after the ace of spades had been played was cleared by
\* the undo of that move.
HintFreshWitness ==
  /\ out.op = "undo" /\ out.ret
  /\ steps > 0
  /\ currentHint = <<>>
  /\ computeHintMove(gameState) # <<>>
  /\ gameState = startNewDeal(Constructed, RichShuffle).gameState

\* The game a handler leaves behind: the state, the history and the result.
Outcome(e) == [gameState |-> e.gameState, history |-> e.history, ret |-> e.ret]

\* Every stock click, card click and drop that can be made on the current
\* display has the same outcome with animations enabled.
SameAsAnimated ==
  LET animated == updateOptions(Cur, AnimationsOn)
  IN /\ animated.animationsEnabled /\ animated.animationBaseMs > 0
     /\ Outcome(stockClickHandler(Cur)) = Outcome(stockClickHandler(animated))
     /\ \A x \in DomElements(dom) :
          Outcome(clickHandler(Cur, x.loc, x.el)) = Outcome(clickHandler(animated, x.loc, x.el))
     /\ \A zone \in DropZones :
          Outcome(dropHandler(Cur, zone)) = Outcome(dropHandler(animated, zone))

\* C27: with animations disabled before any action is taken animationBaseMs
\* and every duration are 0, isMoveAnimating and isFlipAnimating are never
\* true, no stock click, card click or drop is rejected by the animating
\* gate, and every action leaves the gameState it leaves with animations
\* enabled.
InstantPlay ==
  /\ ~animationsEnabled /\ animationBaseMs = 0
  /\ \A d \in {"moveDurationMs", "flipTotalMs", "stockDelayMs"} :
       getAnimationDurations(Cur)[d] = 0
  /\ ~isMoveAnimating /\ ~isFlipAnimating
  /\ ~out.gated
  /\ SameAsAnimated

\* A card click moved a card and turned the card under it face up, and the
\* display frame that follows has run.
InstantPlayWitness ==
  /\ out.op = "displayFrame"
  /\ revealedCardIds = {}
  /\ steps > 0
  /\ gameState.moveCount > 0
  /\ HiddenCount(gameState) < HiddenCount(startNewDeal(Constructed, RichShuffle).gameState)
  /\ dom.hasListeners

\* C28: whenever a move takes a card off a tableau column and appends a card
\* to a foundation, the card appended is the card that was on top of that
\* column, also when a run of several cards is dropped on the foundation.
PlacedIsRemovedStep ==
  out'.op \in BoardOps =>
    \A f \in Suits : \A c \in Columns :
      (/\ Len(gameState'.foundations[f]) = Len(gameState.foundations[f]) + 1
       /\ Len(gameState'.tableau[c]) = Len(gameState.tableau[c]) - 1) =>
        CardId(Last(gameState'.foundations[f])) = CardId(Last(gameState.tableau[c]))
PlacedIsRemoved == [][PlacedIsRemovedStep]_vars

\* C29: after an accepted action has changed gameState, a stock draw or
\* recycle included, no stock click, card click or drop is accepted until
\* the display shows that state: an accepted action that changes gameState
\* is made on a display of the current piles.
FreshDisplayStep ==
  (out'.op \in BoardOps /\ ~out'.gated /\ gameState' # gameState) => DisplayCurrent
FreshDisplay == [][FreshDisplayStep]_vars

\* The deferred callbacks by the name they are observed under.
CallbackOps == {"displayTimeout", "displayFrame", "moveFrame", "moveTimers", "flipTimeout"}

\* C31: every deferred callback (the stock re-render timeout, the animation
\* promise continuation, the animation frames, the flip and move completion
\* timeouts) leaves every pile, faceUp flag, score, moveCount and the undo
\* history unchanged; it changes only the animation flags, revealedCardIds
\* and the rendering.
CallbackStep ==
  out'.op \in CallbackOps =>
    /\ UNCHANGED <<gameState, history, maxHistory, firstMoveDone, currentHint, dragData,
                   animationsEnabled, animationSpeedPreset, animationBaseMs>>
    /\ \A i \in 1 .. Len(out'.events) : out'.events[i].type = "render"
CallbacksKeepGame == [][CallbackStep]_vars

\* The flip of a card revealed by a move has completed.
CallbacksKeepGameWitness ==
  /\ out.op = "flipTimeout"
  /\ ~isFlipAnimating
  /\ gameState.moveCount > 0

\* The visible top cards of a position with the column they are on, -1 for
\* the waste.
VisibleTops(gs) ==
  {[card |-> Last(gs.tableau[c]), col |-> c] :
     c \in {c \in Columns : Len(gs.tableau[c]) > 0 /\ Last(gs.tableau[c]).faceUp}}
  \cup {[card |-> Last(gs.waste), col |-> -1] : w \in {w \in {0} : Len(gs.waste) > 0}}

\* Some visible top card can be moved to a foundation or to another column.
LegalMoveExists(gs) ==
  \E top \in VisibleTops(gs) :
    \/ canMoveToFoundation(gs, top.card) # -1
    \/ \E c \in Columns : c # top.col /\ canMoveToTableau(gs, <<top.card>>, c)

\* C32: computeHintMove returns null only if no legal move exists: whenever
\* a tableau column top or the waste top can be moved to a foundation or to
\* a tableau column, the result is not null.
HintComplete == LegalMoveExists(gameState) => computeHintMove(gameState) # <<>>

\* The card elements a click can be made on that show the current top card
\* of the waste or a face-up current top card of a tableau column.
TopElements ==
  {x \in DomElements(dom) :
     \/ /\ x.loc.zone = "waste"
        /\ Len(gameState.waste) > 0
        /\ x.el.cardId = CardId(Last(gameState.waste))
     \/ /\ x.loc.zone = "tableau"
        /\ Len(gameState.tableau[x.loc.idx]) > 0
        /\ x.el.cardId = CardId(Last(gameState.tableau[x.loc.idx]))
        /\ Last(gameState.tableau[x.loc.idx]).faceUp}

\* The pile of gs at location loc.
PileAt(gs, loc) ==
  CASE loc.zone = "waste" -> gs.waste
    [] loc.zone = "foundation" -> gs.foundations[loc.idx]
    [] OTHER -> gs.tableau[loc.idx]

\* The card on top of source in before is on top of target in after, and
\* only these two piles differ in length.
MovedTop(before, after, source, target) ==
  /\ Len(PileAt(after, source)) = Len(PileAt(before, source)) - 1
  /\ Len(PileAt(after, target)) = Len(PileAt(before, target)) + 1
  /\ CardId(Last(PileAt(after, target))) = CardId(Last(PileAt(before, source)))
  /\ PileAt(after, target) = Append(PileAt(before, target), Last(PileAt(before, source)))
  /\ after.stock = before.stock
  /\ \A loc \in DropZones \cup {WasteLoc} :
       loc \notin {source, target} => Len(PileAt(after, loc)) = Len(PileAt(before, loc))

\* C33: an accepted click on the waste top card or on a face-up tableau top
\* card moves that card to its foundation whenever canMoveToFoundation allows
\* it; otherwise to the lowest-index tableau column, other than the source
\* column, for which canMoveToTableau holds; otherwise it makes no move and
\* leaves gameState, score, moveCount and the undo history unchanged.
AutoMove ==
  (dom.hasListeners /\ ~isAnimating(Cur)) =>
    \A x \in TopElements :
      LET card == Last(PileAt(gameState, x.loc))
          skip == IF x.loc.zone = "tableau" THEN x.loc.idx ELSE -1
          f == canMoveToFoundation(gameState, card)
          legal == {c \in Columns : c # skip /\ canMoveToTableau(gameState, <<card>>, c)}
          after == clickHandler(Cur, x.loc, x.el)
      IN /\ f # -1 =>
              /\ MovedTop(gameState, after.gameState, x.loc, Loc("foundation", f))
              /\ after.gameState.moveCount = gameState.moveCount + 1
              /\ Len(after.history) = Len(history) + 1
         /\ (f = -1 /\ legal # {}) =>
              /\ \E c \in legal :
                   /\ \A other \in legal : c <= other
                   /\ MovedTop(gameState, after.gameState, x.loc, Loc("tableau", c))
              /\ after.gameState.moveCount = gameState.moveCount + 1
              /\ Len(after.history) = Len(history) + 1
         /\ (f = -1 /\ legal = {}) =>
              /\ after.gameState = gameState
              /\ after.history = history
              /\ after.events = <<>>

\* A click has moved the red two of column 0 onto the black three of column
\* 2, the black three of column 4 being legal as well.
AutoMoveWitness ==
  /\ out.op = "cardClick" /\ ~out.gated
  /\ gameState.moveCount = 1
  /\ Len(gameState.tableau[0]) = 0
  /\ Len(gameState.tableau[2]) = 4
  /\ CardId(Last(gameState.tableau[2])) = <<0, 2>>
  /\ CardId(gameState.tableau[2][3]) = <<2, 3>>
  /\ CardId(Last(gameState.tableau[4])) = <<3, 3>>

\* C34: in every reachable state foundation i holds only cards of suit i,
\* its cards read bottom to top are the ranks 1, 2, ..., k with k its size,
\* and all of them are face up.
FoundationsInOrder ==
  \A f \in Suits :
    \A i \in 1 .. Len(gameState.foundations[f]) :
      /\ gameState.foundations[f][i].suit = f
      /\ gameState.foundations[f][i].rank = i
      /\ gameState.foundations[f][i].faceUp

\* Cards have been played to three foundations: one complete, one begun.
FoundationsInOrderWitness ==
  /\ out.op \in BoardOps /\ out.ret
  /\ \E f \in Suits : Len(gameState.foundations[f]) = NumRanks
  /\ \E f \in Suits : Len(gameState.foundations[f]) \in 2 .. (NumRanks - 1)
  /\ FoundationTotal(gameState) > 2 * NumRanks
  /\ Len(history) > 0
  /\ FoundationTotal(Last(history)) < FoundationTotal(gameState)

\* C35: between two consecutive startNewDeal calls onWin is emitted at most
\* once, whatever moves and undos follow the first win.
WinOnce == wins <= 1

\* Every pending callback is one the scheduling covers, and a callback can
\* run exactly when one is pending.
TasksScheduled ==
  /\ BagToSet(tasks) \subseteq FairTasks
  /\ (tasks # EmptyBag) <=> ENABLED <<FairFireTask>>_vars

\* C36: the animating gate always reopens: whenever isMoveAnimating or
\* isFlipAnimating is true, then, the scheduled timers and animation frames
\* firing, isAnimating eventually is false again, whatever undo, new deal,
\* hint or option change happens in between.
GateReopens ==
  /\ []TasksScheduled
  /\ (isMoveAnimating \/ isFlipAnimating) ~> ~(isMoveAnimating \/ isFlipAnimating)

\* The move that turned a card face up was undone while its animation was
\* running; the flip that followed has completed and the gate is open.
GateReopensWitness ==
  /\ out.op = "flipTimeout"
  /\ ~isMoveAnimating /\ ~isFlipAnimating
  /\ tasks = EmptyBag
  /\ history = <<>>
  /\ gameState.moveCount = 0
  /\ script = <<>> /\ steps > 0

\* C37: in every reachable state of a deal the undo history size is at most
\* gameState.moveCount, and equals it as long as the history cap has not
\* been exceeded in that deal: every move pushes one snapshot and adds one
\* to moveCount, every undo pops one snapshot and restores the previous
\* moveCount.
HistoryCountStep ==
  /\ MoveStep =>
       /\ Len(history') = Len(history) + 1
       /\ gameState'.moveCount = gameState.moveCount + 1
  /\ (out'.op = "undo" /\ out'.ret) =>
       /\ Len(history') = Len(history) - 1
       /\ gameState'.moveCount = gameState.moveCount - 1
  /\ out'.op = "newDeal" => (history' = <<>> /\ gameState'.moveCount = 0)
HistoryCount ==
  /\ Len(history) <= gameState.moveCount
  /\ ~LengthExceeds(gameState.moveCount, maxHistory) => Len(history) = gameState.moveCount
  \* under a cap smaller than the number of moves the history is shorter
  /\ \A cap \in 1 .. 2 : \A n \in 0 .. (MaxOps + 1) :
       Len(PushAll(<<>>, Whole(cap), n)) = Min(n, cap)
HistoryTracksMoves == [][HistoryCountStep]_vars /\ []HistoryCount

\* The last of many moves was undone.
HistoryTracksMovesWitness ==
  /\ out.op = "undo" /\ out.ret
  /\ Len(history) > DeckSize
  /\ Len(history) = gameState.moveCount

\* The face-up cards of a column, lowest first.
FaceUpCards(column) == SelectSeq(column, LAMBDA card : card.faceUp)

\* C38: in every reachable state every non-empty tableau column has a
\* face-up top card, and the face-up cards of each column, read from lowest
\* to top, form a valid build: each card is exactly one rank lower than, and
\* of the opposite colour class to, the face-up card directly beneath it.
ColumnsBuilt ==
  \A c \in Columns :
    LET column == gameState.tableau[c]
        up == FaceUpCards(column)
    IN /\ column # <<>> => Last(column).faceUp
       /\ \A i \in 2 .. Len(up) :
            /\ up[i].rank = up[i - 1].rank - 1
            /\ IsRed(up[i]) # IsRed(up[i - 1])

\* C39: whenever onWin is emitted the game is finished: stock, waste and
\* all seven tableau columns are empty and each of the four foundations
\* holds exactly 13 cards.
WinIsFinal ==
  HasEvent(out.events, "onWin") =>
    /\ gameState.stock = <<>>
    /\ gameState.waste = <<>>
    /\ \A c \in Columns : gameState.tableau[c] = <<>>
    /\ \A f \in Suits : Len(gameState.foundations[f]) = NumRanks

\* C40: a drop only moves cards that, at the time of the drop, are the
\* current top card or the current suffix of the source pile in the live
\* gameState: a drop that changes gameState is of cards captured at drag
\* start that still end the source pile.
LiveDropStep ==
  (out'.op = "drop" /\ gameState' # gameState) =>
    /\ dragData # <<>>
    /\ LET cards == dragData[1].draggedCards
           pile == PileAt(gameState, dragData[1].location)
       IN /\ Len(cards) <= Len(pile)
          /\ TakeLast(pile, Len(cards)) = cards
LiveDrop == [][LiveDropStep]_vars

====
